---- MODULE Spec2Model ----
(***************************************************************************)
(* Model of script/update_product_images.py: the per-listing-file fetch    *)
(* pipeline (process_json_file + worker + process_product_url) with its    *)
(* RequestQueue and StateManager, the files it keeps on disk, and a        *)
(* process kill followed by a restart with --resume.                       *)
(*                                                                         *)
(* Coroutines are modelled at the granularity of asyncio: one action is    *)
(* the code a task runs between two points at which it really suspends.   *)
(* An asyncio.Lock that is free, a Queue.put on a queue that is not full   *)
(* and a Queue.task_done do not suspend.  The timeouts of a worker's get()  *)
(* on the drained queue are the one place where several such pieces are    *)
(* taken together, see WorkerEmpty.                                        *)
(*                                                                         *)
(* Line 1578 of the source (`else:` between a try body and its except      *)
(* clause) does not parse.  The model reads that branch the way its log    *)
(* message does, as the alternative of `if isinstance(item, tuple)` at     *)
(* line 1400; RequestQueue.put only accepts tuples, so it is never taken.  *)
(***************************************************************************)
EXTENDS Integers, Sequences, FiniteSets, TLC

\* ---------------------------------------------------------------- bounds
MaxProducts == 2      \* product entries in the listing file
NumWorkers == 2       \* size of the worker pool (MAX_CONCURRENT_REQUESTS, configurable)
MaxKills == 1         \* process kills followed by a --resume restart
MaxFailures == 4      \* failures counted per proxy
MaxItems == 2         \* items in the queue a single worker loop starts with
MaxFiles == 2         \* listing files of a run
MaxFileUrls == 2      \* product URLs of one listing file

\* ------------------------------------------------------ program constants
MAX_QUEUE_SIZE == 100
max_empty_count == 5
FILE_DONE_THRESHOLD == 5
SESSION_RATE_PERIOD == 3000     \* seconds
ACQUIRE_TIMEOUT == 30           \* seconds, wait_for(rate_limiter.acquire())
MAX_RETRIES == 5
PROXY_ROTATION_THRESHOLD == 3
PROXY_RECOVERY_TARGET == 3      \* the literal 3 of _recover_failed_proxies
PROXY_REUSE_GAP == 60           \* seconds between uses of one proxy
CACHE_EXPIRY == 604800          \* seconds (86400 * 7)
session_max_renewal == 5
ERROR_SATURATION == 6           \* consecutive_errors from which nothing changes

\* The semaphore's size is the configured cap; the model's pool bound
\* stands for it.
MAX_CONCURRENT_REQUESTS == NumWorkers

\* Variant: one worker more than the cap.
PoolSize_larger == MAX_CONCURRENT_REQUESTS + 1

\* process_json_file creates range(MAX_CONCURRENT_REQUESTS) workers.
PoolSize == MAX_CONCURRENT_REQUESTS

\* ------------------------------------------------------------- universes
Workers == 1..PoolSize
Urls == {"u1", "u2"}
HistUrls == {"h1", "h2", "h3", "h4", "h5"}
FileName == "f1"
Files == {FileName}

\* A product entry of the listing: its url field and its explicit
\* identifier field ("" when the entry has none).
ProductTypes ==
    { [url |-> "u1", ident |-> ""],
      [url |-> "u2", ident |-> ""],
      [url |-> "u2", ident |-> "s1"] }

Listings == UNION { [1..n -> ProductTypes] : n \in 1..MaxProducts }

\* What the remote server serves for a product page.
\*   fail     fetch_url returns None (retries exhausted)
\*   nodata   a body without JSON-LD records
\*   untyped  JSON-LD records none of which has an @type, no image
\*   noimg    typed JSON-LD records without any image property
\*   one/two  typed JSON-LD records with one / two image URLs
PageKinds == {"fail", "nodata", "untyped", "noimg", "one", "two"}
DataKinds == {"untyped", "noimg", "one", "two"}

\* Values of a product's image field.
Orig == [src |-> "orig", n |-> 0]           \* as found in the input file
EmptyList == [src |-> "list", n |-> 0]      \* the empty list []
Img(u, k) == [src |-> u, n |-> k]           \* k image URL(s) of page u

\* Contents of a sku-<id>.json file.
NoFile == [src |-> "none", kind |-> "none"]
SkuData(u, k) == [src |-> u, kind |-> k]

Skus == {"s1", "s2"}

EmptyState ==
    [ processed_urls |-> {}, processed_skus |-> {},
      file_progress |-> [f \in Files |-> << >>],
      cached_operations |-> 0, total_processed |-> 0 ]

\* State files a run may find on disk when it starts.
StateFiles ==
    { EmptyState,
      [ processed_urls |-> {"u1"}, processed_skus |-> {"s9"},
        file_progress |-> [f \in Files |-> <<"u1">>],
        cached_operations |-> 0, total_processed |-> 1 ],
      [ processed_urls |-> {"h1"}, processed_skus |-> {"s2"},
        file_progress |-> [f \in Files |-> << >>],
        cached_operations |-> 1, total_processed |-> 1 ],
      [ processed_urls |-> HistUrls, processed_skus |-> {},
        file_progress |-> [f \in Files |-> <<"h1", "h2", "h3", "h4", "h5">>],
        cached_operations |-> 0, total_processed |-> 5 ] }

\* SKU files a run may find on disk when it starts.
SkuFileSets ==
    { [s \in Skus |-> NoFile],
      [s \in Skus |-> IF s = "s1" THEN SkuData("u1", "one") ELSE NoFile],
      [s \in Skus |-> IF s = "s2" THEN SkuData("u2", "noimg") ELSE NoFile] }

VARIABLES
    listing,            \* the product entries of the listing file
    page,               \* what the server serves per URL ("unknown" until fetched)
    resume,             \* args.resume
    fileImage,          \* image fields of the listing file on disk
    skuFile,            \* sku-<id>.json files on disk
    skuFile0,           \* the SKU files the first run found
    stateFile,          \* .wh_scraper_state.json on disk
    processed_urls, processed_skus, file_progress,
    cached_operations, total_processed,
    smLock,             \* StateManager.lock: 0 or the worker holding it
    jsonImage,          \* image fields of the loaded json_data (product_ref)
    queue,              \* RequestQueue.queue: indices of product entries
    pending,            \* RequestQueue.pending
    unfinished,         \* asyncio.Queue's count of unfinished tasks
    mainPc, seedIdx,    \* position of main / process_json_file
    wpc,                \* position of each worker
    wItem,              \* the worker's local `url`/`product_ref` (0: unbound)
    empty_queue_count,
    accepted,           \* history: entries whose put returned True
    rejected,           \* history: entries whose put returned False
    doneCalls,          \* history: task_done(url) calls per URL
    succeeded,          \* history: entries whose processing returned success
    touched,            \* history: entries handed to process_product_url
    joinResult,         \* history: how the wait for join() ended
    kills,              \* history: number of kills so far
    \* -- RateLimiter, semaphore and the calls of process_product_url
    rate_limit,         \* RateLimiter.rate_limit
    period,             \* RateLimiter.period, seconds
    timestamps,         \* RateLimiter.timestamps, each kept as its age
    rlLock,             \* RateLimiter.lock: 0 or the caller holding it
    sleepLeft,          \* what is left of the lock holder's asyncio.sleep
    semFree,            \* free permits of the semaphore
    ppc,                \* position of each caller in process_product_url
    timer,              \* time the caller's wait_for has been running
    slot,               \* history: how the call's acquire() ended
    completed,          \* history: ages of the completed acquisitions
    cancelled,          \* history: a worker pool has been cancelled
    \* -- fetch_url and the cache file of its URL
    fpc,                \* position of the fetch_url call
    retries,            \* its `retries` argument
    attempt,            \* the loop variable of its retry loop
    cache,              \* the cache file: age of its mtime and content
    result,             \* what the call returned
    gets,               \* history: GET requests the call issued
    slept,              \* history: the call has been in asyncio.sleep
    lastStatus,         \* history: outcome of the call's latest GET
    callCache,          \* history: the cache file as the call found it
    \* -- ProxyManager
    proxies,            \* ProxyManager.proxies
    available_proxies,  \* ProxyManager.available_proxies (a list)
    failed_proxies,     \* ProxyManager.failed_proxies (absent key: 0)
    proxy_last_used,    \* ProxyManager.proxy_last_used, kept as ages
    current_proxy,      \* ProxyManager.current_proxy ("none": None)
    returned,           \* history: what the latest get_proxy returned
    getFlip,            \* history: flips with every get_proxy call
    fetch_via,          \* history: the proxy of the latest GET of fetch_url
    \* -- one worker's session bookkeeping (the closure variables of worker)
    session_health,     \* health score
    health_floor,       \* history: the score before the low-health reset
    consecutive_errors, \* saturating at ERROR_SATURATION
    current_session,    \* "none" (None) | "open"
    session_created,    \* what the latest create_safe_session returned
    session_fresh,      \* history: that call built a new ClientSession
    \* -- one worker's loop
    lpc,                \* "idle" | "start" | "top" | "get" | "got" | "blocked" | "exited"
    loop_queue,         \* items waiting in the queue
    loop_empty_count,   \* the loop's empty_queue_count
    streak,             \* history: get timeouts since the last item
    exit_path,          \* history: "none" | "no_session" | "empty" | "cancelled"
    failed_at,          \* history: the call of this step that returned False
    session_renewal_count,
    operations_total,
    operations_success,
    \* -- process_json_file for a listing of distinct new URLs, by counts
    seed_pc,            \* "idle" | "seeding" | "join" | "cancel" | "rewritten"
    seed_total,         \* product URLs in the listing file
    seed_done,          \* products the seeding loop has gone through
    seed_qsize,         \* items in the asyncio.Queue
    seed_unfinished,    \* its unfinished tasks
    \* -- main: the loop over the listing files, one worker per file
    run_pc,             \* "idle" | "loop" | "file" | "cancel" | "delay" | "done"
    json_files,         \* sorted_files: readable or not, and the number of URLs
    file_idx,           \* the file the loop is at
    max_requests,       \* args.max_requests, NoLimit for None
    run_urls,           \* len(state_manager.processed_urls)
    run_cached,         \* state_manager.cached_operations
    run_total,          \* state_manager.total_processed
    file_left,          \* items of the current file still in the queue
    url_bound,          \* "none" | "new" | "marked": the worker's local url
    file_ops,           \* history: URLs processed for the current file
    file_hits,          \* history: those served from stored SKU data
    new_fetches,        \* history: URLs of this run that went to fetch_url
    delay,              \* history: "none" | "short" | "long", latest choice
    attempted,          \* history: files handed to process_json_file
    stopped_by,         \* history: "none" | "end" | "limit" | "error"
    \* -- SKU resolution for one product of a listing
    sku_product,        \* the product record's identifier fields
    sku_url,            \* its url
    sku_clock,          \* int(time.time()), as a tick
    sku_seen,           \* history: the SKU each place resolved, Unset before
    \* -- the end of process_json_file: cancelling the workers
    sd_pc,              \* "idle" | "cancel" | "gather" | "timed_out" | "rewrite" | "rewritten"
    sd_clean,           \* where each worker task is in its cleanup
    sd_bound,           \* the worker's `url` names an item
    sd_close            \* its session: "none" | "quick" | "never" (close() does not end)

envVars == <<listing, page, skuFile0>>
diskVars == <<fileImage, skuFile, stateFile>>
smVars == <<processed_urls, processed_skus, file_progress,
            cached_operations, total_processed, smLock>>
rqVars == <<queue, pending, unfinished>>
wkVars == <<wpc, wItem, empty_queue_count>>
histVars == <<accepted, rejected, doneCalls, succeeded, touched, joinResult>>
limVars == <<rate_limit, period, timestamps, rlLock, sleepLeft, semFree, ppc, timer,
            slot, completed, cancelled>>
fuVars == <<fpc, retries, attempt, cache, result, gets, slept, lastStatus,
           callCache>>
pmVars == <<proxies, available_proxies, failed_proxies, proxy_last_used,
           current_proxy, returned, getFlip, fetch_via>>
sessVars == <<session_health, health_floor, consecutive_errors,
             current_session, session_created, session_fresh>>
loopVars == <<lpc, loop_queue, loop_empty_count, streak, exit_path, failed_at,
             session_renewal_count, operations_total, operations_success>>
seedVars == <<seed_pc, seed_total, seed_done, seed_qsize, seed_unfinished>>
runVars == <<run_pc, json_files, file_idx, max_requests, run_urls, run_cached,
            run_total, file_left, url_bound, file_ops, file_hits,
            new_fetches, delay, attempted, stopped_by>>
skuVars == <<sku_product, sku_url, sku_clock, sku_seen>>
shutVars == <<sd_pc, sd_clean, sd_bound, sd_close>>
extVars == <<sessVars, loopVars, seedVars, runVars, skuVars, shutVars>>
compVars == <<limVars, fuVars, pmVars, extVars>>
pipeVars == <<listing, page, resume, fileImage, skuFile, skuFile0, stateFile,
              processed_urls, processed_skus, file_progress, cached_operations,
              total_processed, smLock, jsonImage, queue, pending, unfinished,
              mainPc, seedIdx, wpc, wItem, empty_queue_count, accepted, rejected,
              doneCalls, succeeded, touched, joinResult, kills>>
vars == <<compVars, pipeVars>>

\* What the limiter part leaves alone.
otherVars == <<pipeVars, fuVars, pmVars, extVars>>

Range(s) == { s[k] : k \in 1..Len(s) }

\* ------------------------------------------------------------ SKU lookup
extract_sku_from_url(u) ==
    CASE u = "u1" -> "s1"
      [] u = "u2" -> "s2"
      [] OTHER -> "hash"

extract_sku_from_product(p) ==
    IF p.ident # "" THEN p.ident ELSE extract_sku_from_url(p.url)

\* `extract_sku_from_product(product_ref) or extract_sku_from_url(url)`
SkuOf(p) ==
    IF extract_sku_from_product(p) # "" THEN extract_sku_from_product(p)
    ELSE extract_sku_from_url(p.url)

\* ------------------------------------------------------------ SKU files
\* The stored records, or NoFile when the file is missing or holds no
\* record with an @type.
check_existing_sku_data(files, sku) ==
    IF files[sku] = NoFile THEN NoFile
    ELSE IF files[sku].kind = "untyped" THEN NoFile
    ELSE files[sku]

NumImages(kind) ==
    CASE kind = "one" -> 1
      [] kind = "two" -> 2
      [] OTHER -> 0

\* process_product_url, reuse branch: product_ref['image'] is assigned
\* whatever extract_image_urls returned, the empty list included.
ReuseImage(data) ==
    IF NumImages(data.kind) = 0 THEN EmptyList
    ELSE Img(data.src, NumImages(data.kind))

\* process_product_url, fetch branch: product_ref['image'] is assigned
\* only when extract_image_urls found something.
FetchImage(old, u, kind) ==
    IF NumImages(kind) = 0 THEN old ELSE Img(u, NumImages(kind))

\* ---------------------------------------------------------- StateManager
\* StateManager._load_state: the in-memory state is what the file holds.
LoadedState ==
    /\ processed_urls = stateFile.processed_urls
    /\ processed_skus = stateFile.processed_skus
    /\ file_progress = stateFile.file_progress
    /\ cached_operations = stateFile.cached_operations
    /\ total_processed = stateFile.total_processed

\* Variant: the completed-URL test never matches.
is_processed_never(url) == FALSE

is_processed(url) == url \in processed_urls

is_sku_processed(sku) == sku \in processed_skus

is_file_processed(f) == Len(file_progress[f]) >= FILE_DONE_THRESHOLD

should_process_file(f) == (~resume) \/ ~is_file_processed(f)

\* Variant: the URL is appended without looking.
progress_with_append(urls, url) == Append(urls, url)

\* `if url not in self.file_progress[filename]: ...append(url)`
progress_with(urls, url) ==
    IF url \in Range(urls) THEN urls ELSE Append(urls, url)

\* StateManager.mark_processed, entered by worker w with the lock free:
\* the in-memory update under the lock, then `await self.save_state()`,
\* which waits for the very lock this call holds (asyncio.Lock is not
\* re-entrant).  The call stays suspended there, still holding the lock;
\* the state file is not written.
mark_processed(w, url, sku, used_cache) ==
    /\ smLock' = w
    /\ processed_urls' = processed_urls \cup {url}
    /\ processed_skus' = IF sku # "" THEN processed_skus \cup {sku}
                         ELSE processed_skus
    /\ file_progress' =
          [file_progress EXCEPT ![FileName] = progress_with(@, url)]
    /\ total_processed' = total_processed + 1
    /\ cached_operations' = IF used_cache THEN cached_operations + 1
                            ELSE cached_operations

\* A worker suspended inside save_state on the lock its own
\* mark_processed call holds.
SelfBlocked(w) == wpc[w] \in {"save_wait", "c_save_wait"} /\ smLock = w

\* ---------------------------------------------------------- RequestQueue
\* Variant: put without the pending test.
put_accepts_always(url) == TRUE

\* RequestQueue.put: the test that decides whether the item is added.
put_accepts(url) == url \notin pending

\* RequestQueue.task_done(url) on the queue state rq: Queue.task_done()
\* raises ValueError when no task is unfinished, and then the discard
\* that follows it is not reached.
task_done(rq, url) ==
    IF rq.unfinished > 0
    THEN [pending |-> rq.pending \ {url}, unfinished |-> rq.unfinished - 1]
    ELSE rq

\* Variant: join wakes one task early.
join_ready_early == unfinished <= 1

\* asyncio.Queue.join: what the waiter waits for.
join_ready == unfinished = 0

pending_count == Cardinality(pending)

UrlOf(i) == listing[i].url

QueuedUrls == { UrlOf(queue[k]) : k \in 1..Len(queue) }

\* Worker positions in which a dequeued item is being processed.
InFlight == {"processing", "mark_wait", "save_wait"}

\* ----------------------------------------------------------- RateLimiter
\* Time advances in steps of TimeUnit seconds; every delay of this part
\* of the program is a multiple of it.  time.time() values are kept
\* relative to the present: a timestamp is stored as its age, which is
\* all the code ever computes from it (now - ts).
TimeUnit == ACQUIRE_TIMEOUT

Period == period \div TimeUnit

TimeoutSteps == ACQUIRE_TIMEOUT \div TimeUnit

\* random.uniform(60, 120), the extra wait of acquire().
WaitJitter == { 60 \div TimeUnit, 90 \div TimeUnit, 120 \div TimeUnit }

\* Values of --rate-limit and --rate-period: the defaults and a
\* configured pair.  The default limit 0.02 acts as 1 in the only place
\* that reads it, len(self.timestamps) >= self.rate_limit.
LimiterConfigs ==
    { [rate_limit |-> 1, period |-> SESSION_RATE_PERIOD],
      [rate_limit |-> 2, period |-> 300] }

\* [ts for ts in self.timestamps if now - ts < self.period]
Prune(ts) == SelectSeq(ts, LAMBDA a : a < Period)

\* now - min(self.timestamps)
OldestAge(ts) == CHOOSE a \in Range(ts) : \A b \in Range(ts) : b <= a

\* One step of the clock on a list of ages; an age that has reached the
\* period stays there.
Aged(ts) == [k \in 1..Len(ts) |-> IF ts[k] < Period THEN ts[k] + 1 ELSE ts[k]]

\* Variant: the limiter's lock never holds anyone back.
limiter_lock_free_always == TRUE

\* `async with self.lock` enters without waiting.
limiter_lock_free == rlLock = 0

\* main: the semaphore and the RateLimiter as created, no call under way.
LimiterStart ==
    /\ timestamps = << >>
    /\ rlLock = 0
    /\ sleepLeft = [c \in Workers |-> 0]
    /\ semFree = MAX_CONCURRENT_REQUESTS
    /\ ppc = [c \in Workers |-> "out"]
    /\ timer = [c \in Workers |-> 0]
    /\ slot = [c \in Workers |-> "none"]
    /\ completed = << >>
    /\ cancelled = FALSE

LimiterIdle ==
    /\ rate_limit = 1
    /\ period = SESSION_RATE_PERIOD
    /\ LimiterStart

\* -------------------------------------------------------------- fetch_url
NoCache == [age |-> -1, content |-> "none"]

\* Ages at which the model looks at a cache file: just written, and
\* around the expiry.
ClockPoints == {0, 1, CACHE_EXPIRY - 1, CACHE_EXPIRY, CACHE_EXPIRY + 1}

\* Cache files a call may find: none, an empty file, a stored page.
CacheFiles ==
    {NoCache} \cup [age : ClockPoints, content : {"empty", "page"}]

\* What one GET can end in: status 200 with a body of more than 100
\* characters, of 1..100 characters or empty; status 429; status 403;
\* another status; ClientError or TimeoutError.
Outcomes == {"200page", "200short", "200empty", "429", "403", "other", "error"}

NoResult == [kind |-> "none", body |-> "none"]

\* Variant: an entry is still valid at the age of CACHE_EXPIRY.
is_cache_valid_lenient(c) == c # NoCache /\ c.age <= CACHE_EXPIRY

is_cache_valid(c) == c # NoCache /\ c.age < CACHE_EXPIRY

\* Variant: the cache is never used.
cache_hit_never(c) == FALSE

\* fetch_url lines 479-483: the cached content is returned.
cache_hit(c) == is_cache_valid(c) /\ c.content # "empty"

\* Variant: the retry loop never runs out.
attempts_left_always(k) == TRUE

\* `for attempt in range(retries)`: the loop body runs for index k.
attempts_left(k) == k < retries

\* No fetch_url call under way.
FetchStart ==
    /\ fpc = "idle"
    /\ attempt = 0
    /\ result = NoResult
    /\ gets = 0
    /\ slept = FALSE
    /\ lastStatus = "none"
    /\ callCache = NoCache

FetchIdle ==
    /\ retries = MAX_RETRIES
    /\ cache = NoCache
    /\ FetchStart

\* ----------------------------------------------------------- ProxyManager
\* Proxy lists a ProxyManager may be constructed with: PROXIES as it is
\* shipped (empty), and a configured list.
ProxyPools ==
    { << >>, << "p1", "p2", "p3", "p4" >> }

\* Ages of a last use, in steps of PROXY_REUSE_GAP seconds: GapSteps is exactly
\* PROXY_REUSE_GAP seconds, AgeCap stands for every longer time and for a
\* proxy never used (proxy_last_used.get(proxy, 0)).
GapSteps == PROXY_REUSE_GAP \div PROXY_REUSE_GAP

AgeCap == GapSteps + 1

\* Variant: a use exactly PROXY_REUSE_GAP seconds ago is long enough ago.
reusable_at_gap(p) == proxy_last_used[p] >= GapSteps

\* `time.time() - last_used > 60`
reusable(p) == proxy_last_used[p] > GapSteps

\* Variant: a proxy is retired one failure later.
retire_at_late(n) == n > PROXY_ROTATION_THRESHOLD

\* mark_proxy_failure: the failure count at which a proxy is retired.
retire_at(n) == n >= PROXY_ROTATION_THRESHOLD

\* Variant: the recovery pass takes the proxies in any order.
recovery_order_any(ord) == TRUE

\* sorted(self.failed_proxies.items(), key=lambda x: x[1]): the failure
\* counts along ord do not decrease.  Equal counts keep the dict's
\* insertion order, which the model leaves open.
recovery_order(ord) ==
    \A j, k \in 1..Len(ord) :
        j < k => failed_proxies[ord[j]] <= failed_proxies[ord[k]]

\* The loop of _recover_failed_proxies over the candidates ord, from the
\* available list av: the list it leaves.
RECURSIVE RecoverFrom(_, _)
RecoverFrom(av, ord) ==
    IF ord = << >> THEN av
    ELSE IF Len(Append(av, Head(ord))) >= PROXY_RECOVERY_TARGET
         THEN Append(av, Head(ord))
         ELSE RecoverFrom(Append(av, Head(ord)), Tail(ord))

\* _recover_failed_proxies from the available list av: nothing when more
\* than three proxies are available.
RecoverFailedProxies(av, ord) ==
    IF Len(av) > PROXY_RECOVERY_TARGET THEN av ELSE RecoverFrom(av, ord)

\* The orders in which a recovery pass may meet the proxies that are
\* configured and not available.
RecoveryOrders ==
    LET cand == Range(proxies) \ Range(available_proxies)
    IN  { ord \in [1..Cardinality(cand) -> cand] :
            /\ \A j, k \in 1..Len(ord) : j # k => ord[j] # ord[k]
            /\ recovery_order(ord) }

\* get_proxy's choice from the available list av: the pinned proxy if it
\* may be used again, else the first of the list that may, else the
\* least recently used one (the first of them in the list).
SelectProxy(av) ==
    IF current_proxy # "none" /\ current_proxy \in Range(av)
          /\ reusable(current_proxy)
    THEN current_proxy
    ELSE IF \E k \in 1..Len(av) : reusable(av[k])
    THEN av[CHOOSE k \in 1..Len(av) :
                /\ reusable(av[k])
                /\ \A j \in 1..(k - 1) : ~reusable(av[j])]
    ELSE av[CHOOSE k \in 1..Len(av) :
                /\ \A j \in 1..Len(av) :
                      proxy_last_used[av[j]] <= proxy_last_used[av[k]]
                /\ \A j \in 1..(k - 1) :
                      proxy_last_used[av[j]] < proxy_last_used[av[k]]]

\* `proxy = get_proxy_for_session(session_to_use)` returned None.
NoProxy == [proxy |-> "none", retired |-> FALSE]

\* ProxyManager.__init__ for the proxy list ps.
ProxyStart(ps) ==
    /\ proxies = ps
    /\ available_proxies = ps
    /\ failed_proxies = [p \in Range(ps) |-> 0]
    /\ proxy_last_used = [p \in Range(ps) |-> AgeCap]
    /\ current_proxy = "none"
    /\ returned = "none"
    /\ getFlip = FALSE
    /\ fetch_via = NoProxy

ProxyIdle == ProxyStart(<< "p1", "p2" >>)

\* ------------------------------------------------- worker: its session
ErrorTypes == {"connection", "timeout", "http_error", "rate_limit",
               "worker_stuck", "invalid_session", "queue_error"}

\* What an error of the given type takes from the health score.
Penalty(error_type) ==
    CASE error_type \in {"connection", "timeout"} -> 30
      [] error_type \in {"http_error", "rate_limit"} -> 20
      [] OTHER -> 10

\* Variant: a low score never forces a renewal.
low_health_never(h) == FALSE

\* `if session_health < 40`: the renewal that puts the score back to 70.
low_health(h) == h < 40

\* Variant: a low score is left as it is.
renewed_health_kept(h) == h

\* `if session_health < 40: ... session_health = 70`
renewed_health(h) == IF low_health(h) THEN 70 ELSE h

\* create_safe_session(force_new, error_type) for the bookkeeping s
\* (health, errors, session); made is whether one of the attempts to
\* build a ClientSession went through.  error_type "none" is the call
\* without an error.  consecutive_errors is kept up to ERROR_SATURATION:
\* max_retries, the only place that reads more than its comparison with
\* 2 and 3, is capped there.
create_safe_session(s, force_new, error_type, made) ==
    LET h1 == IF error_type # "none" THEN s.health - Penalty(error_type)
              ELSE IF s.health + 5 > 100 THEN 100 ELSE s.health + 5
        ce == IF error_type = "none" THEN 0
              ELSE IF s.errors < ERROR_SATURATION THEN s.errors + 1
              ELSE ERROR_SATURATION
        renew == force_new \/ low_health(h1)
        h2 == renewed_health(h1)
        closed == IF s.session # "none" /\ (renew \/ s.session = "open")
                  THEN "none" ELSE s.session
        reuse == ~renew /\ closed = "open"
    IN  [health |-> h2, floor |-> h1, errors |-> ce,
         session |-> IF reuse \/ made THEN "open" ELSE "none",
         created |-> reuse \/ made,
         fresh |-> ~reuse /\ made]

\* The bookkeeping as a record, and its assignment.
SessionNow ==
    [health |-> session_health, floor |-> health_floor,
     errors |-> consecutive_errors, session |-> current_session,
     created |-> session_created, fresh |-> session_fresh]

SessionBecomes(r) ==
    /\ session_health' = r.health
    /\ health_floor' = r.floor
    /\ consecutive_errors' = r.errors
    /\ current_session' = r.session
    /\ session_created' = r.created
    /\ session_fresh' = r.fresh

\* The closure variables when worker starts.
SessionStart ==
    /\ session_health = 100
    /\ health_floor = 100
    /\ consecutive_errors = 0
    /\ current_session = "none"
    /\ session_created = FALSE
    /\ session_fresh = FALSE

\* --------------------------------------------------- worker: its loop
\* Variant: the loop is left one timeout later.
exit_on_empty_late(c) == c > max_empty_count

\* `if empty_queue_count >= max_empty_count: break`
exit_on_empty(c) == c >= max_empty_count

\* Variant: the worker goes on without its first session.
worker_gives_up_never(created) == FALSE

\* `if not session_created: ... return` after the first create_safe_session
worker_gives_up(created) == ~created

\* The adaptive renewal test; aged is session_age > 3600.
should_renew_session(s, count, aged) ==
    \/ count >= session_max_renewal
    \/ aged
    \/ 5 * (operations_total - operations_success) > operations_total
    \/ s.health < 60

LoopStartState(n) ==
    /\ lpc = "start"
    /\ loop_queue = n
    /\ loop_empty_count = 0
    /\ streak = 0
    /\ exit_path = "none"
    /\ failed_at = "none"
    /\ session_renewal_count = 0
    /\ operations_total = 0
    /\ operations_success = 0

LoopIdle ==
    /\ lpc = "idle"
    /\ loop_queue = 0
    /\ loop_empty_count = 0
    /\ streak = 0
    /\ exit_path = "none"
    /\ failed_at = "none"
    /\ session_renewal_count = 0
    /\ operations_total = 0
    /\ operations_success = 0

\* ------------------------------------------- process_json_file, by counts
\* Numbers of distinct product URLs in a listing file, up to one more
\* than the queue holds.
SeedSizes == {1, 2, MAX_QUEUE_SIZE - 1, MAX_QUEUE_SIZE, MAX_QUEUE_SIZE + 1}

SeedStart(n) ==
    /\ seed_pc = "seeding"
    /\ seed_total = n
    /\ seed_done = 0
    /\ seed_qsize = 0
    /\ seed_unfinished = 0

SeedIdle ==
    /\ seed_pc = "idle"
    /\ seed_total = 0
    /\ seed_done = 0
    /\ seed_qsize = 0
    /\ seed_unfinished = 0

\* ------------------------------------------------------------------ main
NoLimit == -1

\* A listing file: one that cannot be read as JSON, or its number of
\* product URLs, all new.
FileKinds ==
    {[ok |-> FALSE, urls |-> 0]}
        \cup {[ok |-> TRUE, urls |-> n] : n \in 0..MaxFileUrls}

\* What _load_state finds: the counters an earlier run left.
LoadedCounters ==
    { [urls |-> 0, cached |-> 0, total |-> 0],
      [urls |-> 1, cached |-> 1, total |-> 1],
      [urls |-> 1, cached |-> 0, total |-> 1] }

\* Variant: an error inside process_json_file reaches main's own handler.
file_error_caught_never == FALSE

\* process_json_file's `except json.JSONDecodeError` / `except Exception`
file_error_caught == TRUE

\* `len(state_manager.processed_urls) >= args.max_requests`
limit_reached == max_requests # NoLimit /\ run_urls >= max_requests

\* `get_cached_count() > 0 and get_cached_count() == get_processed_count()`
short_delay == run_cached > 0 /\ run_cached = run_total

RunStart(fs, m, c) ==
    /\ run_pc = "loop"
    /\ json_files = fs
    /\ file_idx = 1
    /\ max_requests = m
    /\ run_urls = c.urls
    /\ run_cached = c.cached
    /\ run_total = c.total
    /\ file_left = 0
    /\ url_bound = "none"
    /\ file_ops = 0
    /\ file_hits = 0
    /\ new_fetches = 0
    /\ delay = "none"
    /\ attempted = {}
    /\ stopped_by = "none"

RunIdle ==
    /\ run_pc = "idle"
    /\ json_files = << >>
    /\ file_idx = 1
    /\ max_requests = NoLimit
    /\ run_urls = 0
    /\ run_cached = 0
    /\ run_total = 0
    /\ file_left = 0
    /\ url_bound = "none"
    /\ file_ops = 0
    /\ file_hits = 0
    /\ new_fetches = 0
    /\ delay = "none"
    /\ attempted = {}
    /\ stopped_by = "none"

\* -------------------------------------------------------- SKU resolution
Absent == "<absent>"
NoSku == "<None>"
Unset == "<unset>"

\* Product URLs by what the parsing of extract_sku_from_url finds in
\* them: the digits of a /d/<name>-<digits>/ path, the sku and id query
\* parameters, an all-digit last path segment ("" where there is none);
\* whether urllib.parse.urlparse accepts the URL (it raises ValueError on
\* an unbalanced bracket in the host part); and the md5-based name.
SkuUrls ==
    { [d |-> "111", qsku |-> "", qid |-> "", tail |-> "111", parses |-> TRUE,
       md5 |-> "hash-a"],
      [d |-> "112", qsku |-> "222", qid |-> "", tail |-> "", parses |-> TRUE,
       md5 |-> "hash-b"],
      [d |-> "", qsku |-> "222", qid |-> "333", tail |-> "", parses |-> TRUE,
       md5 |-> "hash-c"],
      [d |-> "", qsku |-> "", qid |-> "333", tail |-> "444", parses |-> TRUE,
       md5 |-> "hash-d"],
      [d |-> "", qsku |-> "", qid |-> "", tail |-> "444", parses |-> TRUE,
       md5 |-> "hash-e"],
      [d |-> "", qsku |-> "", qid |-> "", tail |-> "", parses |-> TRUE,
       md5 |-> "hash-f"],
      [d |-> "113", qsku |-> "", qid |-> "", tail |-> "", parses |-> FALSE,
       md5 |-> "hash-g"],
      [d |-> "", qsku |-> "", qid |-> "", tail |-> "", parses |-> FALSE,
       md5 |-> "hash-h"] }

\* The identifier fields of a product record: missing, empty or filled.
SkuProducts ==
    [sku : {Absent, "", "S1"}, productID : {Absent, "P1"},
     identifier : {Absent, "I1"}, id : {Absent, "", "D1"}]

SkuClock == 1..2

\* extract_sku_from_url on a parsed-out URL; NoSku is None (the except
\* branch).
sku_of_url(u) ==
    IF u.d # "" THEN u.d
    ELSE IF ~u.parses THEN NoSku
    ELSE IF u.qsku # "" THEN u.qsku
    ELSE IF u.qid # "" THEN u.qid
    ELSE IF u.tail # "" THEN u.tail
    ELSE u.md5

\* extract_sku_from_product: str() of the first identifier field the
\* record has, else the SKU of its url field.
sku_of_product(p, u) ==
    IF p.sku # Absent THEN p.sku
    ELSE IF p.productID # Absent THEN p.productID
    ELSE IF p.identifier # Absent THEN p.identifier
    ELSE IF p.id # Absent THEN p.id
    ELSE IF sku_of_url(u) \notin {NoSku, ""} THEN sku_of_url(u)
    ELSE NoSku

\* `extract_sku_from_product(product_ref) or extract_sku_from_url(url)`
resolve_sku(p, u) ==
    IF sku_of_product(p, u) \notin {NoSku, ""} THEN sku_of_product(p, u)
    ELSE sku_of_url(u)

\* f"unknown-{int(time.time())}"
unknown_sku(t) == IF t = 1 THEN "unknown-1" ELSE "unknown-2"

SkuPlaces == {"seeding", "processing", "again", "marking"}

SkuStart(p, u) ==
    /\ sku_product = p
    /\ sku_url = u
    /\ sku_clock = 1
    /\ sku_seen = [x \in SkuPlaces |-> Unset]

SkuIdle ==
    SkuStart([sku |-> Absent, productID |-> Absent, identifier |-> Absent,
              id |-> Absent],
             [d |-> "111", qsku |-> "", qid |-> "", tail |-> "111",
              parses |-> TRUE, md5 |-> "hash-a"])

\* ------------------------------------------- cancelling the worker tasks
\* Sessions a worker may hold when it is cancelled: none, one whose
\* close() returns, one whose close() never does.
CloseKinds == {"none", "quick", "never"}

ShutIdle ==
    /\ sd_pc = "idle"
    /\ sd_clean = [w \in Workers |-> "ended"]
    /\ sd_bound = [w \in Workers |-> FALSE]
    /\ sd_close = [w \in Workers |-> "none"]

ExtIdle == SessionStart /\ LoopIdle /\ SeedIdle /\ RunIdle /\ SkuIdle /\ ShutIdle

\* ------------------------------------------------------------------ Init
\* The program before main's loop, for a listing, a --resume flag and
\* the files found on disk.
PipelineStart ==
    /\ page = [u \in Urls |-> "unknown"]
    /\ fileImage = [i \in 1..Len(listing) |-> Orig]
    /\ skuFile0 = skuFile
    /\ LoadedState
    /\ smLock = 0
    /\ jsonImage = fileImage
    /\ queue = << >>
    /\ pending = {}
    /\ unfinished = 0
    /\ mainPc = "main"
    /\ seedIdx = 1
    /\ wpc = [w \in Workers |-> "none"]
    /\ wItem = [w \in Workers |-> 0]
    /\ empty_queue_count = [w \in Workers |-> 0]
    /\ accepted = {}
    /\ rejected = {}
    /\ doneCalls = [u \in Urls |-> 0]
    /\ succeeded = {}
    /\ touched = {}
    /\ joinResult = "none"
    /\ kills = 0

\* The pipeline at rest on one fixed input, for the specifications of
\* the single components.
PipelineIdle ==
    /\ listing = << [url |-> "u1", ident |-> ""] >>
    /\ resume = FALSE
    /\ skuFile = [s \in Skus |-> NoFile]
    /\ stateFile = EmptyState
    /\ PipelineStart

Init ==
    /\ listing \in Listings
    /\ resume \in BOOLEAN
    /\ skuFile \in SkuFileSets
    /\ stateFile \in StateFiles
    /\ PipelineStart
    /\ LimiterIdle
    /\ FetchIdle
    /\ ProxyIdle
    /\ ExtIdle

BaseIdle == PipelineIdle /\ LimiterIdle /\ FetchIdle /\ ProxyIdle

\* ---------------------------------------------------------- orchestrator
\* main's loop body for the file and process_json_file up to the seeding
\* loop: skip the file in resume mode when it counts as processed, else
\* load it and create the RequestQueue.
MainStart ==
    /\ mainPc = "main"
    /\ IF (resume /\ is_file_processed(FileName)) \/ ~should_process_file(FileName)
       THEN /\ mainPc' = "finished"
            /\ UNCHANGED jsonImage
       ELSE /\ mainPc' = "seed"
            /\ jsonImage' = fileImage
    /\ seedIdx' = 1
    /\ queue' = << >>
    /\ pending' = {}
    /\ unfinished' = 0
    /\ UNCHANGED <<compVars, envVars, diskVars, smVars, wkVars, histVars, resume, kills>>

\* One iteration of the seeding loop of process_json_file, with the
\* RequestQueue.put it may make.
SeedStep ==
    /\ mainPc = "seed"
    /\ seedIdx <= Len(listing)
    /\ LET url == UrlOf(seedIdx)
           sku == SkuOf(listing[seedIdx])
           skip == \/ (resume /\ is_processed(url))
                   \/ (sku # "" /\ resume /\ is_sku_processed(sku))
       IN  IF skip
           THEN UNCHANGED <<rqVars, accepted, rejected>>
           ELSE IF put_accepts(url)
                THEN /\ Len(queue) < MAX_QUEUE_SIZE
                     /\ queue' = Append(queue, seedIdx)
                     /\ pending' = pending \cup {url}
                     /\ unfinished' = unfinished + 1
                     /\ accepted' = accepted \cup {seedIdx}
                     /\ UNCHANGED rejected
                ELSE /\ rejected' = rejected \cup {seedIdx}
                     /\ UNCHANGED <<rqVars, accepted>>
    /\ seedIdx' = seedIdx + 1
    /\ UNCHANGED <<compVars, envVars, diskVars, smVars, wkVars, resume, jsonImage, mainPc,
                   doneCalls, succeeded, touched, joinResult, kills>>

\* The worker tasks are created and the orchestrator suspends in
\* wait_for(request_queue.join()); each worker runs up to its first
\* request_queue.get().
Spawn ==
    /\ mainPc = "seed"
    /\ seedIdx > Len(listing)
    /\ mainPc' = "join"
    /\ wpc' = [w \in Workers |-> "idle"]
    /\ wItem' = [w \in Workers |-> 0]
    /\ empty_queue_count' = [w \in Workers |-> 0]
    /\ UNCHANGED <<compVars, envVars, diskVars, smVars, rqVars, histVars, resume,
                   jsonImage, seedIdx, kills>>

\* join() returns: every task.cancel() follows at once.
JoinReturn ==
    /\ mainPc = "join"
    /\ join_ready
    /\ mainPc' = "gather"
    /\ joinResult' = "drained"
    /\ UNCHANGED <<compVars, envVars, diskVars, smVars, rqVars, wkVars, resume, jsonImage,
                   seedIdx, accepted, rejected, doneCalls, succeeded, touched,
                   kills>>

\* The wait for join() times out: every task.cancel() follows at once.
JoinTimeout ==
    /\ mainPc = "join"
    /\ ~join_ready
    /\ mainPc' = "gather"
    /\ joinResult' = "timeout"
    /\ UNCHANGED <<compVars, envVars, diskVars, smVars, rqVars, wkVars, resume, jsonImage,
                   seedIdx, accepted, rejected, doneCalls, succeeded, touched,
                   kills>>

\* ---------------------------------------------------------------- worker
\* Variant: get hands out the head of the queue without removing it.
WorkerGet_peek(w) ==
    /\ mainPc = "join"
    /\ wpc[w] = "idle"
    /\ queue # << >>
    /\ wItem' = [wItem EXCEPT ![w] = Head(queue)]
    /\ empty_queue_count' = [empty_queue_count EXCEPT ![w] = 0]
    /\ wpc' = [wpc EXCEPT ![w] = "processing"]
    /\ touched' = touched \cup {Head(queue)}
    /\ UNCHANGED <<compVars, envVars, diskVars, smVars, rqVars, resume,
                   jsonImage, mainPc, seedIdx, accepted, rejected, doneCalls,
                   succeeded, joinResult, kills>>

\* request_queue.get() hands the worker the next item.
WorkerGet(w) ==
    /\ mainPc = "join"
    /\ wpc[w] = "idle"
    /\ queue # << >>
    /\ wItem' = [wItem EXCEPT ![w] = Head(queue)]
    /\ queue' = Tail(queue)
    /\ empty_queue_count' = [empty_queue_count EXCEPT ![w] = 0]
    /\ wpc' = [wpc EXCEPT ![w] = "processing"]
    /\ touched' = touched \cup {Head(queue)}
    /\ UNCHANGED <<compVars, envVars, diskVars, smVars, pending, unfinished, resume,
                   jsonImage, mainPc, seedIdx, accepted, rejected, doneCalls,
                   succeeded, joinResult, kills>>

\* request_queue.get() times out on the empty queue until the worker has
\* counted max_empty_count timeouts in a row and leaves its loop.  Nothing
\* is put on the queue once the workers exist, so the queue a worker found
\* empty stays empty and no get() comes between these timeouts; they are
\* taken in one step.  A cancellation between two of them finds the worker
\* suspended in get() with no item bound, as WorkerCancel finds it.
WorkerEmpty(w) ==
    /\ mainPc = "join"
    /\ wpc[w] = "idle"
    /\ queue = << >>
    /\ empty_queue_count[w] < max_empty_count
    /\ empty_queue_count' = [empty_queue_count EXCEPT ![w] = max_empty_count]
    /\ wpc' = [wpc EXCEPT ![w] = "done"]
    /\ UNCHANGED <<compVars, envVars, diskVars, smVars, rqVars, histVars, resume,
                   jsonImage, mainPc, seedIdx, wItem, kills>>

\* What follows process_product_url's return in the worker, in one piece
\* with it (nothing suspends in between): on success the call of
\* state_manager.mark_processed, which either blocks in save_state
\* holding the lock or waits for the lock; on failure the finally block
\* with request_queue.task_done(url), and back to get().
AfterProcess(w, i, success, used_cache) ==
    LET url == UrlOf(i)
        rq == task_done([pending |-> pending, unfinished |-> unfinished], url)
    IN  IF success
        THEN /\ succeeded' = succeeded \cup {i}
             /\ IF smLock = 0
                THEN /\ mark_processed(w, url, SkuOf(listing[i]), used_cache)
                     /\ wpc' = [wpc EXCEPT ![w] = "save_wait"]
                ELSE /\ wpc' = [wpc EXCEPT ![w] = "mark_wait"]
                     /\ UNCHANGED smVars
             /\ UNCHANGED <<pending, unfinished, doneCalls>>
        ELSE /\ pending' = rq.pending
             /\ unfinished' = rq.unfinished
             /\ doneCalls' = [doneCalls EXCEPT ![url] = @ + 1]
             /\ wpc' = [wpc EXCEPT ![w] = "idle"]
             /\ UNCHANGED <<smVars, succeeded>>

\* Variant: a page without structured data counts as processed.
processing_fails_on_fetch_only(k) == k = "fail"

\* process_product_url returns (False, False): fetch_url returned
\* nothing, or extract_json_ld found no record.
processing_fails(k) == k \in {"fail", "nodata"}

\* process_product_url for the item the worker holds, from the point
\* where its waits (semaphore, rate limiter, fetch_url) are over.
WorkerProcess(w) ==
    /\ mainPc = "join"
    /\ wpc[w] = "processing"
    /\ LET i == wItem[w]
           url == UrlOf(i)
           sku == SkuOf(listing[i])
           existing == check_existing_sku_data(skuFile, sku)
       IN  IF existing # NoFile
           THEN \* reuse of the stored SKU data, no request
                /\ jsonImage' = [jsonImage EXCEPT ![i] = ReuseImage(existing)]
                /\ UNCHANGED <<page, skuFile>>
                /\ AfterProcess(w, i, TRUE, TRUE)
           ELSE \E k \in PageKinds :
                /\ page[url] \in {"unknown", k}
                /\ page' = [page EXCEPT ![url] = k]
                /\ IF processing_fails(k)
                   THEN /\ UNCHANGED <<skuFile, jsonImage>>
                        /\ AfterProcess(w, i, FALSE, FALSE)
                   ELSE /\ skuFile' = [skuFile EXCEPT ![sku] = SkuData(url, k)]
                        /\ jsonImage' = [jsonImage EXCEPT ![i] =
                                            FetchImage(@, url, k)]
                        /\ AfterProcess(w, i, TRUE, FALSE)
    /\ UNCHANGED <<compVars, listing, skuFile0, fileImage, stateFile, resume, queue,
                   mainPc, seedIdx, wItem, empty_queue_count, accepted,
                   rejected, touched, joinResult, kills>>

\* The worker receives CancelledError at the point where it is suspended.
\* If an item is in flight the finally block of the loop calls
\* task_done(url); the handler at the end of worker() then calls
\* task_done(url) whenever `url` is bound, and mark_processed(url, sku,
\* filename, False) whenever a SKU resolves.  A mark_processed call that
\* was under way releases the lock as the error passes through it.
WorkerCancel(w) ==
    /\ mainPc = "gather"
    /\ wpc[w] \in {"idle"} \cup InFlight
    /\ LET i == wItem[w]
           url == UrlOf(i)
           rq0 == [pending |-> pending, unfinished |-> unfinished]
           rq1 == IF wpc[w] \in InFlight THEN task_done(rq0, url) ELSE rq0
           rq2 == IF i # 0 THEN task_done(rq1, url) ELSE rq1
           calls == (IF wpc[w] \in InFlight THEN 1 ELSE 0) + (IF i # 0 THEN 1 ELSE 0)
           lock1 == IF smLock = w THEN 0 ELSE smLock
           queued == \E v \in Workers : wpc[v] = "c_mark_wait"
       IN  /\ pending' = rq2.pending
           /\ unfinished' = rq2.unfinished
           /\ doneCalls' = IF i # 0
                           THEN [doneCalls EXCEPT ![url] = @ + calls]
                           ELSE doneCalls
           /\ IF i # 0 /\ SkuOf(listing[i]) # ""
              THEN IF lock1 = 0 /\ ~queued
                   THEN /\ mark_processed(w, url, SkuOf(listing[i]), FALSE)
                        /\ wpc' = [wpc EXCEPT ![w] = "c_save_wait"]
                   ELSE /\ smLock' = lock1
                        /\ wpc' = [wpc EXCEPT ![w] = "c_mark_wait"]
                        /\ UNCHANGED <<processed_urls, processed_skus,
                                       file_progress, cached_operations,
                                       total_processed>>
              ELSE /\ smLock' = lock1
                   /\ wpc' = [wpc EXCEPT ![w] = "done"]
                   /\ UNCHANGED <<processed_urls, processed_skus,
                                  file_progress, cached_operations,
                                  total_processed>>
    /\ UNCHANGED <<compVars, envVars, diskVars, resume, jsonImage, queue, mainPc,
                   seedIdx, wItem, empty_queue_count, accepted, rejected,
                   succeeded, touched, joinResult, kills>>

\* A worker whose cleanup waited for the StateManager lock gets it.
CleanupAcquire(w) ==
    /\ mainPc = "gather"
    /\ wpc[w] = "c_mark_wait"
    /\ smLock = 0
    /\ mark_processed(w, UrlOf(wItem[w]), SkuOf(listing[wItem[w]]), FALSE)
    /\ wpc' = [wpc EXCEPT ![w] = "c_save_wait"]
    /\ UNCHANGED <<compVars, envVars, diskVars, rqVars, histVars, resume, jsonImage,
                   mainPc, seedIdx, wItem, empty_queue_count, kills>>

\* gather() sees every worker finished within its 5 seconds.
GatherDone ==
    /\ mainPc = "gather"
    /\ \A w \in Workers : wpc[w] = "done"
    /\ mainPc' = "rewrite"
    /\ UNCHANGED <<compVars, envVars, diskVars, smVars, rqVars, wkVars, histVars, resume,
                   jsonImage, seedIdx, kills>>

\* The 5 seconds pass with some worker still suspended in its cleanup:
\* wait_for cancels gather and with it those workers, which run their
\* finally block and end; the lock is released on the way out.
GatherTimeout ==
    /\ mainPc = "gather"
    /\ \A w \in Workers : wpc[w] \in {"done", "c_save_wait", "c_mark_wait"}
    /\ \E w \in Workers : wpc[w] # "done"
    /\ wpc' = [w \in Workers |-> "done"]
    /\ smLock' = 0
    /\ mainPc' = "rewrite"
    /\ UNCHANGED <<compVars, envVars, diskVars, processed_urls, processed_skus,
                   file_progress, cached_operations, total_processed, rqVars,
                   histVars, resume, jsonImage, seedIdx, wItem,
                   empty_queue_count, kills>>

\* json.dump(json_data, file): the listing file is rewritten.
Rewrite ==
    /\ mainPc = "rewrite"
    /\ fileImage' = jsonImage
    /\ mainPc' = "finished"
    /\ UNCHANGED <<compVars, envVars, skuFile, stateFile, smVars, rqVars, wkVars,
                   histVars, resume, jsonImage, seedIdx, kills>>

\* The process is killed and started again with --resume: memory is
\* lost, the files stay, StateManager loads the state file.
Kill ==
    /\ mainPc # "finished"
    /\ kills < MaxKills
    /\ kills' = kills + 1
    /\ resume' = TRUE
    /\ processed_urls' = stateFile.processed_urls
    /\ processed_skus' = stateFile.processed_skus
    /\ file_progress' = stateFile.file_progress
    /\ cached_operations' = stateFile.cached_operations
    /\ total_processed' = stateFile.total_processed
    /\ smLock' = 0
    /\ jsonImage' = fileImage
    /\ queue' = << >>
    /\ pending' = {}
    /\ unfinished' = 0
    /\ mainPc' = "main"
    /\ seedIdx' = 1
    /\ wpc' = [w \in Workers |-> "none"]
    /\ wItem' = [w \in Workers |-> 0]
    /\ empty_queue_count' = [w \in Workers |-> 0]
    /\ accepted' = {}
    /\ rejected' = {}
    /\ doneCalls' = [u \in Urls |-> 0]
    /\ succeeded' = {}
    /\ touched' = {}
    /\ joinResult' = "none"
    /\ UNCHANGED <<compVars, envVars, diskVars>>

\* One run of the program.
Next ==
    \/ MainStart
    \/ SeedStep
    \/ Spawn
    \/ JoinReturn
    \/ JoinTimeout
    \/ \E w \in Workers : WorkerGet(w)
    \/ \E w \in Workers : WorkerEmpty(w)
    \/ \E w \in Workers : WorkerProcess(w)
    \/ \E w \in Workers : WorkerCancel(w)
    \/ \E w \in Workers : CleanupAcquire(w)
    \/ GatherDone
    \/ GatherTimeout
    \/ Rewrite

Spec == Init /\ [][Next]_vars

\* Runs of the program with kills and --resume restarts between them.
NextResume ==
    \/ Next
    \/ Kill

ResumeSpec == Init /\ [][NextResume]_vars

TypeOK ==
    /\ mainPc \in {"main", "seed", "join", "gather", "rewrite", "finished"}
    /\ \A w \in Workers :
          wpc[w] \in {"none", "idle", "processing", "mark_wait", "save_wait",
                      "c_mark_wait", "c_save_wait", "done"}
    /\ smLock \in {0} \cup Workers
    /\ unfinished \in Nat
    /\ pending \subseteq Urls

\* A single run from a directory without state file and SKU files.  When
\* the last unfinished task is done, Queue.join's waiter is woken and the
\* event loop runs it: weak fairness of JoinReturn.
InitFresh ==
    /\ Init
    /\ stateFile = EmptyState
    /\ skuFile = [s \in Skus |-> NoFile]

FairSpec == InitFresh /\ [][Next]_vars /\ WF_vars(JoinReturn)

\* ------------------------------------- process_product_url and acquire()
\* The end of the `async with semaphore` block of process_product_url for
\* caller c, `how` telling how its acquire() ended ("free": returned
\* without sleeping, "waited": returned after its sleep, "timeout":
\* abandoned by wait_for): the stored
\* SKU data is used and the call returns, or the block is left and
\* fetch_url is called.  `sem` is the number of free permits after it.
Proceed(c, how, sem) ==
    /\ semFree' = sem
    /\ timer' = [timer EXCEPT ![c] = 0]
    /\ \E reuse \in BOOLEAN :
          /\ ppc' = [ppc EXCEPT ![c] = IF reuse THEN "out" ELSE "fetching"]
          /\ slot' = [slot EXCEPT ![c] = IF reuse THEN "none" ELSE how]

\* RateLimiter.acquire from the point where caller c has the lock: prune,
\* then either sleep with the lock held or append and return.  `sem` is
\* the number of free permits while c holds its own.
TakeLock(c, sem) ==
    LET ts == Prune(timestamps)
    IN  IF Len(ts) >= rate_limit
        THEN \E j \in WaitJitter :
                /\ timestamps' = ts
                /\ rlLock' = c
                /\ sleepLeft' = [sleepLeft EXCEPT ![c] = Period - OldestAge(ts) + j]
                /\ ppc' = [ppc EXCEPT ![c] = "sleeping"]
                /\ semFree' = sem
                /\ UNCHANGED <<timer, slot, completed>>
        ELSE /\ timestamps' = Append(ts, 0)
             /\ completed' = Append(completed, 0)
             /\ UNCHANGED <<rlLock, sleepLeft>>
             /\ Proceed(c, "free", sem + 1)

\* A worker calls process_product_url: it takes a permit of the semaphore
\* and calls wait_for(rate_limiter.acquire(), 30.0).
PEnter(c) ==
    /\ ppc[c] = "out"
    /\ semFree > 0
    /\ IF limiter_lock_free
       THEN TakeLock(c, semFree - 1)
       ELSE /\ ppc' = [ppc EXCEPT ![c] = "lock_wait"]
            /\ semFree' = semFree - 1
            /\ UNCHANGED <<timestamps, rlLock, sleepLeft, timer, slot, completed>>
    /\ UNCHANGED <<rate_limit, period, cancelled, otherVars>>

\* A caller that waited for the limiter's lock gets it.
PLockAcquire(c) ==
    /\ ppc[c] = "lock_wait"
    /\ limiter_lock_free
    /\ TakeLock(c, semFree)
    /\ UNCHANGED <<rate_limit, period, cancelled, otherVars>>

\* The sleep inside acquire() is over: prune again, append, release the
\* lock, return.
PWake(c) ==
    /\ ppc[c] = "sleeping"
    /\ sleepLeft[c] = 0
    /\ timestamps' = Append(Prune(timestamps), 0)
    /\ completed' = Append(completed, 0)
    /\ rlLock' = 0
    /\ UNCHANGED sleepLeft
    /\ Proceed(c, "waited", semFree + 1)
    /\ UNCHANGED <<rate_limit, period, cancelled, otherVars>>

\* wait_for gives up after 30 seconds: acquire() is cancelled where it
\* waits, which releases the lock if it held it, and process_product_url
\* goes on after its `except asyncio.TimeoutError`.
PTimeout(c) ==
    /\ ppc[c] \in {"lock_wait", "sleeping"}
    /\ timer[c] >= TimeoutSteps
    /\ rlLock' = IF rlLock = c THEN 0 ELSE rlLock
    /\ sleepLeft' = [sleepLeft EXCEPT ![c] = 0]
    /\ UNCHANGED <<timestamps, completed>>
    /\ Proceed(c, "timeout", semFree + 1)
    /\ UNCHANGED <<rate_limit, period, cancelled, otherVars>>

\* fetch_url returns and process_product_url with it.
PFetchReturn(c) ==
    /\ ppc[c] = "fetching"
    /\ ppc' = [ppc EXCEPT ![c] = "out"]
    /\ slot' = [slot EXCEPT ![c] = "none"]
    /\ UNCHANGED <<rate_limit, period, cancelled, timestamps, rlLock, sleepLeft, semFree, timer,
                   completed, otherVars>>

\* process_json_file cancels its workers at the end of a listing file;
\* the next file gets a new pool with the same semaphore and limiter.
PoolCancel ==
    /\ \E c \in Workers : ppc[c] # "out"
    /\ ppc' = [c \in Workers |-> "out"]
    /\ rlLock' = 0
    /\ sleepLeft' = [c \in Workers |-> 0]
    /\ semFree' = MAX_CONCURRENT_REQUESTS
    /\ timer' = [c \in Workers |-> 0]
    /\ slot' = [c \in Workers |-> "none"]
    /\ cancelled' = TRUE
    /\ UNCHANGED <<rate_limit, period, timestamps, completed, otherVars>>

\* TimeUnit seconds pass.
Tick ==
    /\ timestamps' = Aged(timestamps)
    /\ completed' = Prune(Aged(completed))
    /\ sleepLeft' = [c \in Workers |->
                        IF sleepLeft[c] > 0 THEN sleepLeft[c] - 1 ELSE 0]
    /\ timer' = [c \in Workers |->
                    IF ppc[c] \in {"lock_wait", "sleeping"} /\ timer[c] < TimeoutSteps
                    THEN timer[c] + 1 ELSE timer[c]]
    /\ UNCHANGED <<rate_limit, period, cancelled, rlLock, semFree, ppc, slot, otherVars>>

LimiterInit ==
    /\ PipelineIdle
    /\ FetchIdle
    /\ ProxyIdle
    /\ ExtIdle
    /\ \E cfg \in LimiterConfigs :
          /\ rate_limit = cfg.rate_limit
          /\ period = cfg.period
    /\ LimiterStart

LimiterNext ==
    \/ \E c \in Workers : PEnter(c)
    \/ \E c \in Workers : PLockAcquire(c)
    \/ \E c \in Workers : PWake(c)
    \/ \E c \in Workers : PTimeout(c)
    \/ \E c \in Workers : PFetchReturn(c)
    \/ PoolCancel
    \/ Tick

LimiterSpec == LimiterInit /\ [][LimiterNext]_vars

\* -------------------------------------------------------------- fetch_url
fuOther == <<pipeVars, limVars, pmVars, extVars>>

\* fetch_url is called: the cache check, and on a miss the two pauses
\* before the retry loop.
FetchCall ==
    /\ fpc = "idle"
    /\ callCache' = cache
    /\ IF cache_hit(cache)
       THEN /\ fpc' = "returned"
            /\ result' = [kind |-> "cached", body |-> cache.content]
            /\ UNCHANGED slept
       ELSE /\ fpc' = "attempt"
            /\ slept' = TRUE
            /\ UNCHANGED result
    /\ UNCHANGED <<retries, attempt, cache, gets, lastStatus, fuOther>>

\* One pass of the retry loop: the GET, what its outcome leads to (the
\* cache write and the return on 200, the cooldowns on 429 and 403), the
\* backoff sleep, and the return of None when the loop has run out.
FetchAttempt ==
    /\ fpc = "attempt"
    /\ attempts_left(attempt)
    /\ \E o \in Outcomes :
          /\ gets' = gets + 1
          /\ lastStatus' = o
          /\ IF o \in {"200page", "200short", "200empty"}
             THEN /\ cache' = IF o = "200page"
                              THEN [age |-> 0, content |-> "page"]
                              ELSE cache
                  /\ result' = [kind |-> "fetched",
                                body |-> IF o = "200page" THEN "page"
                                         ELSE IF o = "200short" THEN "short"
                                         ELSE "empty"]
                  /\ fpc' = "returned"
                  /\ UNCHANGED attempt
             ELSE /\ attempt' = attempt + 1
                  /\ IF attempts_left(attempt + 1)
                     THEN /\ fpc' = "attempt"
                          /\ UNCHANGED result
                     ELSE /\ fpc' = "returned"
                          /\ result' = [kind |-> "failure", body |-> "none"]
                  /\ UNCHANGED cache
    /\ UNCHANGED <<retries, slept, callCache, fuOther>>

\* The caller has the result; the next call of fetch_url for the URL can
\* be made.
FetchDone ==
    /\ fpc = "returned"
    /\ fpc' = "idle"
    /\ attempt' = 0
    /\ result' = NoResult
    /\ gets' = 0
    /\ slept' = FALSE
    /\ lastStatus' = "none"
    /\ callCache' = NoCache
    /\ UNCHANGED <<retries, cache, fuOther>>

\* Time passes for the cache file.
ClockAdvance ==
    /\ cache # NoCache
    /\ \E a \in ClockPoints :
          /\ a > cache.age
          /\ cache' = [cache EXCEPT !.age = a]
    /\ UNCHANGED <<fpc, retries, attempt, result, gets, slept, lastStatus,
                   callCache, fuOther>>

FetchInit ==
    /\ PipelineIdle
    /\ LimiterIdle
    /\ ProxyIdle
    /\ ExtIdle
    /\ retries \in 1..MAX_RETRIES
    /\ cache \in CacheFiles
    /\ FetchStart

FetchNext ==
    \/ FetchCall
    \/ FetchAttempt
    \/ FetchDone
    \/ ClockAdvance

FetchSpec == FetchInit /\ [][FetchNext]_vars

\* A sleep or a GET of fetch_url ends (REQUEST_TIMEOUT at the latest),
\* and the event loop then runs the call on: weak fairness of the pass.
FairFetchSpec == FetchSpec /\ WF_vars(FetchAttempt)

\* ----------------------------------------------------------- ProxyManager
\* The bodies of get_proxy and mark_proxy_failure hold self.lock without
\* suspending, so the lock is free whenever a call starts and each call
\* is one step.
pmOther == <<pipeVars, limVars, fuVars, extVars>>

\* get_proxy(): the recovery pass when the available list is empty, then
\* the choice.
GetProxy ==
    /\ getFlip' = ~getFlip
    /\ \E ord \in (IF available_proxies = << >> THEN RecoveryOrders
                   ELSE { << >> }) :
          LET av == IF available_proxies = << >>
                    THEN RecoverFailedProxies(available_proxies, ord)
                    ELSE available_proxies
              back == Range(av) \ Range(available_proxies)
          IN  /\ available_proxies' = av
              /\ failed_proxies' = [p \in Range(proxies) |->
                                       IF p \in back THEN 0 ELSE failed_proxies[p]]
              /\ IF av = << >>
                 THEN /\ returned' = "none"
                      /\ UNCHANGED <<current_proxy, proxy_last_used>>
                 ELSE /\ returned' = SelectProxy(av)
                      /\ current_proxy' =
                            IF SelectProxy(av) = current_proxy
                            THEN current_proxy ELSE SelectProxy(av)
                      /\ proxy_last_used' =
                            [proxy_last_used EXCEPT ![SelectProxy(av)] = 0]
    /\ UNCHANGED <<proxies, fetch_via, pmOther>>

\* Variant: the pinned proxy stays pinned when it is retired.
unpinned_by_none(p) == FALSE

\* `if self.current_proxy == proxy: self.current_proxy = None`
unpinned_by(p) == current_proxy = p

\* mark_proxy_failure(p)
MarkProxyFailure(p) ==
    /\ failed_proxies[p] < MaxFailures
    /\ failed_proxies' = [failed_proxies EXCEPT ![p] = @ + 1]
    /\ IF retire_at(failed_proxies[p] + 1)
       THEN /\ available_proxies' =
                  SelectSeq(available_proxies, LAMBDA q : q # p)
            /\ current_proxy' = IF unpinned_by(p) THEN "none"
                                ELSE current_proxy
       ELSE UNCHANGED <<available_proxies, current_proxy>>
    /\ UNCHANGED <<proxies, proxy_last_used, returned, getFlip, fetch_via,
                   pmOther>>

\* PROXY_REUSE_GAP seconds pass.
ProxyTick ==
    /\ \E p \in Range(proxies) : proxy_last_used[p] < AgeCap
    /\ proxy_last_used' = [p \in Range(proxies) |->
                              IF proxy_last_used[p] < AgeCap
                              THEN proxy_last_used[p] + 1 ELSE AgeCap]
    /\ UNCHANGED <<proxies, available_proxies, failed_proxies, current_proxy,
                   returned, getFlip, fetch_via, pmOther>>

\* One GET of fetch_url: get_proxy_for_session gives None when PROXIES is
\* empty and random.choice(PROXIES) otherwise; PROXIES is the list a
\* ProxyManager is built on.  The history keeps whether the manager had
\* the proxy retired at that moment.
FetchViaProxy ==
    /\ fetch_via' \in
          IF proxies = << >> THEN {NoProxy}
          ELSE { [proxy |-> p, retired |-> p \notin Range(available_proxies)] :
                   p \in Range(proxies) }
    /\ UNCHANGED <<proxies, available_proxies, failed_proxies,
                   proxy_last_used, current_proxy, returned, getFlip, pmOther>>

ProxyInit ==
    /\ PipelineIdle
    /\ LimiterIdle
    /\ FetchIdle
    /\ ExtIdle
    /\ \E ps \in ProxyPools : ProxyStart(ps)

ProxyNext ==
    \/ GetProxy
    \/ \E p \in Range(proxies) : MarkProxyFailure(p)
    \/ ProxyTick

ProxySpec == ProxyInit /\ [][ProxyNext]_vars

\* The ProxyManager and the GETs of fetch_url side by side.
ProxyFetchNext ==
    \/ GetProxy
    \/ \E p \in Range(proxies) : MarkProxyFailure(p)
    \/ FetchViaProxy

ProxyFetchSpec == ProxyInit /\ [][ProxyFetchNext]_vars

\* ------------------------------------------------- worker: its session
sessOther == <<pipeVars, limVars, fuVars, pmVars, seedVars, runVars, skuVars,
    shutVars>>

\* One call of create_safe_session, with any arguments.
SessionCall ==
    /\ \E force_new \in BOOLEAN, error_type \in ErrorTypes \cup {"none"},
          made \in BOOLEAN :
          SessionBecomes(create_safe_session(SessionNow, force_new,
                                             error_type, made))
    /\ UNCHANGED <<loopVars, sessOther>>

SessionInit == BaseIdle /\ ExtIdle

SessionSpec == SessionInit /\ [][SessionCall]_vars

\* --------------------------------------------------- worker: its loop
\* worker up to the loop: the first create_safe_session().
LoopStart ==
    /\ lpc = "start"
    /\ \E made \in BOOLEAN :
          LET r == create_safe_session(SessionNow, FALSE, "none", made)
          IN  /\ SessionBecomes(r)
              /\ IF worker_gives_up(r.created)
                 THEN /\ lpc' = "exited"
                      /\ exit_path' = "no_session"
                 ELSE /\ lpc' = "top"
                      /\ UNCHANGED exit_path
              /\ failed_at' = IF r.created THEN "none" ELSE "initial"
    /\ UNCHANGED <<loop_queue, loop_empty_count, streak,
                   session_renewal_count, operations_total,
                   operations_success, sessOther>>

\* The head of an iteration: the renewal of a worker that has been idle
\* for more than 300 s (stuck), then the adaptive renewal.
LoopRenew ==
    /\ lpc = "top"
    /\ \E stuck, aged, madeA, madeB \in BOOLEAN :
          LET callA == stuck /\ operations_total > 0
              a == IF callA
                   THEN create_safe_session(SessionNow, TRUE, "worker_stuck",
                                            madeA)
                   ELSE SessionNow
              countA == IF callA /\ a.created THEN 0
                        ELSE session_renewal_count
              callB == should_renew_session(a, countA, aged)
              b == IF callB
                   THEN create_safe_session(a, TRUE, "none", madeB)
                   ELSE a
          IN  /\ SessionBecomes(b)
              /\ session_renewal_count' =
                    IF callB /\ b.created THEN 0 ELSE countA
              /\ failed_at' = IF callB /\ ~b.created THEN "renewal"
                              ELSE IF callA /\ ~a.created THEN "stuck"
                              ELSE "none"
    /\ lpc' = "get"
    /\ UNCHANGED <<loop_queue, loop_empty_count, streak, exit_path,
                   operations_total, operations_success, sessOther>>

\* wait_for(request_queue.get(), 5.0) returns an item.
LoopGet ==
    /\ lpc = "get"
    /\ loop_queue > 0
    /\ loop_queue' = loop_queue - 1
    /\ loop_empty_count' = 0
    /\ streak' = 0
    /\ operations_total' = operations_total + 1
    /\ lpc' = "got"
    /\ failed_at' = "none"
    /\ UNCHANGED <<exit_path, session_renewal_count, operations_success,
                   sessVars, sessOther>>

\* wait_for(request_queue.get(), 5.0) times out.
LoopTimeout ==
    /\ lpc = "get"
    /\ loop_queue = 0
    /\ loop_empty_count' = loop_empty_count + 1
    /\ streak' = streak + 1
    /\ IF exit_on_empty(loop_empty_count + 1)
       THEN /\ lpc' = "exited"
            /\ exit_path' = "empty"
       ELSE /\ lpc' = "top"
            /\ UNCHANGED exit_path
    /\ failed_at' = "none"
    /\ UNCHANGED <<loop_queue, session_renewal_count, operations_total,
                   operations_success, sessVars, sessOther>>

\* The dequeued item: a new session when there is none, then
\* process_product_url; after a success mark_processed, which never
\* returns (it waits for the lock it holds), otherwise task_done and the
\* next iteration.
LoopProcess ==
    /\ lpc = "got"
    /\ \E made \in BOOLEAN, outcome \in {"hit", "fetched", "failed"} :
          LET need == current_session = "none"
              r == IF need
                   THEN create_safe_session(SessionNow, TRUE,
                                            "invalid_session", made)
                   ELSE SessionNow
          IN  IF need /\ ~r.created
              THEN /\ SessionBecomes(r)
                   /\ failed_at' = "item"
                   /\ lpc' = "top"
                   /\ UNCHANGED <<session_renewal_count, operations_success>>
              ELSE /\ SessionBecomes(
                        [r EXCEPT !.errors = IF outcome = "failed" THEN @
                                             ELSE 0])
                   /\ failed_at' = "none"
                   /\ operations_success' =
                         IF outcome = "failed" THEN operations_success
                         ELSE operations_success + 1
                   /\ session_renewal_count' =
                         IF outcome = "hit" THEN session_renewal_count
                         ELSE session_renewal_count + 1
                   /\ lpc' = IF outcome = "failed" THEN "top" ELSE "blocked"
    /\ UNCHANGED <<loop_queue, loop_empty_count, streak, exit_path,
                   operations_total, sessOther>>

\* task.cancel() from process_json_file, after join() returned or timed
\* out.
LoopCancel ==
    /\ lpc \in {"top", "get", "got", "blocked"}
    /\ lpc' = "exited"
    /\ exit_path' = "cancelled"
    /\ failed_at' = "none"
    /\ UNCHANGED <<loop_queue, loop_empty_count, streak,
                   session_renewal_count, operations_total,
                   operations_success, sessVars, sessOther>>

LoopInit ==
    /\ BaseIdle
    /\ ShutIdle
    /\ SeedIdle
    /\ RunIdle
    /\ SkuIdle
    /\ SessionStart
    /\ \E n \in 0..MaxItems : LoopStartState(n)

LoopNext ==
    \/ LoopStart
    \/ LoopRenew
    \/ LoopGet
    \/ LoopTimeout
    \/ LoopProcess
    \/ LoopCancel

LoopSpec == LoopInit /\ [][LoopNext]_vars

\* The event loop runs a task that is ready: the head of the iteration
\* and the timeout of get() on the empty queue are taken.
FairLoopSpec ==
    LoopSpec /\ WF_vars(LoopStart) /\ WF_vars(LoopRenew) /\ WF_vars(LoopTimeout)

\* ------------------------------------------- process_json_file, by counts
seedOther == <<pipeVars, limVars, fuVars, pmVars, sessVars, loopVars, runVars, skuVars,
    shutVars>>

\* One round of the seeding loop for a new URL: RequestQueue.put, whose
\* `await self.queue.put(item)` returns only when the queue has room.  No
\* worker exists yet, so a full queue stays full.
SeedPut ==
    /\ seed_pc = "seeding"
    /\ seed_done < seed_total
    /\ seed_qsize < MAX_QUEUE_SIZE
    /\ seed_done' = seed_done + 1
    /\ seed_qsize' = seed_qsize + 1
    /\ seed_unfinished' = seed_unfinished + 1
    /\ UNCHANGED <<seed_pc, seed_total, seedOther>>

\* The loop is through: the workers are created and join() is awaited.
SeedSpawn ==
    /\ seed_pc = "seeding"
    /\ seed_done = seed_total
    /\ seed_pc' = "join"
    /\ UNCHANGED <<seed_total, seed_done, seed_qsize, seed_unfinished,
                   seedOther>>

\* A worker takes an item and, unless it stays inside mark_processed,
\* calls task_done for it.
SeedConsume ==
    /\ seed_pc = "join"
    /\ seed_qsize > 0
    /\ seed_qsize' = seed_qsize - 1
    /\ \E finished \in BOOLEAN :
          seed_unfinished' = IF finished THEN seed_unfinished - 1
                             ELSE seed_unfinished
    /\ UNCHANGED <<seed_pc, seed_total, seed_done, seedOther>>

\* wait_for(request_queue.join(), timeout) ends: the queue is drained, or
\* the timeout has passed.
SeedJoinEnd ==
    /\ seed_pc = "join"
    /\ \E timed_out \in BOOLEAN : timed_out \/ seed_unfinished = 0
    /\ seed_pc' = "cancel"
    /\ UNCHANGED <<seed_total, seed_done, seed_qsize, seed_unfinished,
                   seedOther>>

\* The workers are cancelled, gather is awaited for 5 s at most, and the
\* listing file is written.
SeedRewrite ==
    /\ seed_pc = "cancel"
    /\ seed_pc' = "rewritten"
    /\ UNCHANGED <<seed_total, seed_done, seed_qsize, seed_unfinished,
                   seedOther>>

SeedInit ==
    /\ BaseIdle
    /\ ShutIdle
    /\ SessionStart
    /\ LoopIdle
    /\ RunIdle
    /\ SkuIdle
    /\ \E n \in SeedSizes : SeedStart(n)

SeedNext ==
    \/ SeedPut
    \/ SeedSpawn
    \/ SeedConsume
    \/ SeedJoinEnd
    \/ SeedRewrite

\* The orchestrator coroutine runs whenever it can, and its timeouts
\* expire.
FairSeedSpec ==
    /\ SeedInit /\ [][SeedNext]_vars
    /\ WF_vars(SeedPut) /\ WF_vars(SeedSpawn)
    /\ WF_vars(SeedJoinEnd) /\ WF_vars(SeedRewrite)

\* ------------------------------------------------------------------ main
\* The loop of main over the listing files, without --resume.  What
\* happens inside process_json_file is what the pipeline above does with
\* MAX_CONCURRENT_REQUESTS = 1 worker: the worker takes the URLs in
\* order; after a success it calls mark_processed and stays in it, so
\* join() times out; the cancelled worker's handler calls
\* mark_processed(url, sku, filename, False) for the URL it last
\* dequeued, whatever became of it.
runOther == <<pipeVars, limVars, fuVars, pmVars, sessVars, loopVars, seedVars, skuVars,
    shutVars>>

\* The head of the for loop and the start of process_json_file.
RunNextFile ==
    /\ run_pc = "loop"
    /\ IF file_idx > Len(json_files)
       THEN /\ run_pc' = "done"
            /\ stopped_by' = "end"
            /\ UNCHANGED <<file_left, file_ops, file_hits, attempted>>
       ELSE IF limit_reached
       THEN /\ run_pc' = "done"
            /\ stopped_by' = "limit"
            /\ UNCHANGED <<file_left, file_ops, file_hits, attempted>>
       ELSE /\ attempted' = attempted \cup {file_idx}
            /\ file_ops' = 0
            /\ file_hits' = 0
            /\ IF ~json_files[file_idx].ok
               THEN /\ file_left' = 0
                    /\ IF file_error_caught
                       THEN run_pc' = "delay" /\ UNCHANGED stopped_by
                       ELSE run_pc' = "done" /\ stopped_by' = "error"
               ELSE /\ file_left' = json_files[file_idx].urls
                    /\ run_pc' = IF json_files[file_idx].urls = 0 THEN "delay"
                                 ELSE "file"
                    /\ UNCHANGED stopped_by
    /\ url_bound' = "none"
    /\ UNCHANGED <<json_files, file_idx, max_requests, run_urls, run_cached,
                   run_total, new_fetches, delay, runOther>>

\* The worker processes the next URL of the file.
RunItem ==
    /\ run_pc = "file"
    /\ file_left > 0
    /\ \E outcome \in {"hit", "fetched", "failed"} :
          /\ file_ops' = file_ops + 1
          /\ file_hits' = IF outcome = "hit" THEN file_hits + 1 ELSE file_hits
          /\ new_fetches' = IF outcome = "hit" THEN new_fetches
                            ELSE new_fetches + 1
          /\ IF outcome = "failed"
             THEN /\ url_bound' = "new"
                  /\ file_left' = file_left - 1
                  /\ run_pc' = IF file_left = 1 THEN "cancel" ELSE "file"
                  /\ UNCHANGED <<run_urls, run_cached, run_total>>
             ELSE /\ url_bound' = "marked"
                  /\ file_left' = file_left - 1
                  /\ run_urls' = run_urls + 1
                  /\ run_total' = run_total + 1
                  /\ run_cached' = IF outcome = "hit" THEN run_cached + 1
                                   ELSE run_cached
                  /\ run_pc' = "cancel"
    /\ UNCHANGED <<json_files, file_idx, max_requests, delay, attempted,
                   stopped_by, runOther>>

\* join() has returned or timed out; the worker is cancelled and its
\* handler marks the URL it holds; the listing file is written.
RunCancel ==
    /\ run_pc = "cancel"
    /\ run_urls' = IF url_bound = "new" THEN run_urls + 1 ELSE run_urls
    /\ run_total' = run_total + 1
    /\ run_pc' = "delay"
    /\ UNCHANGED <<json_files, file_idx, max_requests, run_cached, file_left,
                   url_bound, file_ops, file_hits, new_fetches, delay,
                   attempted, stopped_by, runOther>>

\* The delay between files is chosen and slept.
RunDelay ==
    /\ run_pc = "delay"
    /\ delay' = IF short_delay THEN "short" ELSE "long"
    /\ file_idx' = file_idx + 1
    /\ run_pc' = "loop"
    /\ UNCHANGED <<json_files, max_requests, run_urls, run_cached, run_total,
                   file_left, url_bound, file_ops, file_hits, new_fetches,
                   attempted, stopped_by, runOther>>

RunInit ==
    /\ BaseIdle
    /\ ShutIdle
    /\ SessionStart
    /\ LoopIdle
    /\ SeedIdle
    /\ SkuIdle
    /\ \E n \in 1..MaxFiles :
          \E fs \in [1..n -> FileKinds], m \in {NoLimit, 1, 2},
             c \in LoadedCounters :
             RunStart(fs, m, c)

RunNext ==
    \/ RunNextFile
    \/ RunItem
    \/ RunCancel
    \/ RunDelay

RunSpec == RunInit /\ [][RunNext]_vars

\* -------------------------------------------------------- SKU resolution
skuOther == <<pipeVars, limVars, fuVars, pmVars, sessVars, loopVars, seedVars,
             runVars,
    shutVars>>

\* The seeding loop of process_json_file resolves the product's SKU.
SkuAtSeeding ==
    /\ sku_seen["seeding"] = Unset
    /\ sku_seen' = [sku_seen EXCEPT !["seeding"] =
                       resolve_sku(sku_product, sku_url)]
    /\ UNCHANGED <<sku_product, sku_url, sku_clock, skuOther>>

\* process_product_url resolves it, with the time-stamped name when
\* nothing resolved; a URL may be processed again later.
SkuAtProcessing ==
    /\ sku_seen["seeding"] # Unset
    /\ \E place \in {"processing", "again"} :
          /\ sku_seen[place] = Unset
          /\ place = "again" => sku_seen["processing"] # Unset
          /\ sku_seen' = [sku_seen EXCEPT ![place] =
                IF resolve_sku(sku_product, sku_url) \notin {NoSku, ""}
                THEN resolve_sku(sku_product, sku_url)
                ELSE unknown_sku(sku_clock)]
    /\ UNCHANGED <<sku_product, sku_url, sku_clock, skuOther>>

\* The worker resolves it for mark_processed.
SkuAtMarking ==
    /\ sku_seen["processing"] # Unset
    /\ sku_seen["marking"] = Unset
    /\ sku_seen' = [sku_seen EXCEPT !["marking"] =
                       resolve_sku(sku_product, sku_url)]
    /\ UNCHANGED <<sku_product, sku_url, sku_clock, skuOther>>

\* A second passes.
SkuTick ==
    /\ sku_clock + 1 \in SkuClock
    /\ sku_clock' = sku_clock + 1
    /\ UNCHANGED <<sku_product, sku_url, sku_seen, skuOther>>

SkuInit ==
    /\ BaseIdle
    /\ ShutIdle
    /\ SessionStart
    /\ LoopIdle
    /\ SeedIdle
    /\ RunIdle
    /\ \E p \in SkuProducts, u \in SkuUrls : SkuStart(p, u)

SkuNext ==
    \/ SkuAtSeeding
    \/ SkuAtProcessing
    \/ SkuAtMarking
    \/ SkuTick

SkuSpec == SkuInit /\ [][SkuNext]_vars

\* ------------------------------------------- cancelling the worker tasks
shutOther == <<pipeVars, limVars, fuVars, pmVars, sessVars, loopVars, seedVars,
              runVars, skuVars>>

AllEnded == \A w \in Workers : sd_clean[w] = "ended"

\* task.cancel() for every task that is not done, and the orchestrator
\* suspends in wait_for(gather(...), timeout=5.0).
ShutCancel ==
    /\ sd_pc = "cancel"
    /\ sd_pc' = "gather"
    /\ UNCHANGED <<sd_clean, sd_bound, sd_close, shutOther>>

\* Worker w receives CancelledError and runs its handler up to the first
\* await that suspends: with a URL bound, task_done and then
\* mark_processed, which never returns (it waits in save_state for the
\* lock it holds, or for the lock another call holds); otherwise the
\* close() of its session; with neither, the handler returns and the
\* task ends.
ShutHandler(w) ==
    /\ sd_pc = "gather"
    /\ sd_clean[w] = "running"
    /\ sd_clean' = [sd_clean EXCEPT ![w] =
          IF sd_bound[w] THEN "flush"
          ELSE IF sd_close[w] = "none" THEN "ended" ELSE "close"]
    /\ UNCHANGED <<sd_pc, sd_bound, sd_close, shutOther>>

\* The handler's `await current_session.close()` returns; the session is
\* closed, the finally block has nothing to do and the task ends.
ShutClose(w) ==
    /\ sd_pc = "gather"
    /\ sd_clean[w] = "close"
    /\ sd_close[w] = "quick"
    /\ sd_clean' = [sd_clean EXCEPT ![w] = "ended"]
    /\ UNCHANGED <<sd_pc, sd_bound, sd_close, shutOther>>

\* The 5 seconds are over with some task not done: wait_for cancels the
\* gather, which cancels every task still running, and waits for it.
\* The CancelledError leaves the handler (it is not an Exception) and the
\* finally block of worker runs: a worker interrupted in mark_processed
\* still has its session open and awaits close(); for a worker
\* interrupted in close() it depends on aiohttp whether the session
\* already counts as closed.
ShutGraceOver ==
    /\ sd_pc = "gather"
    /\ ~AllEnded
    /\ \A w \in Workers :
          /\ sd_clean[w] # "running"
          /\ sd_clean[w] = "close" => sd_close[w] = "never"
    /\ sd_pc' = "timed_out"
    /\ \E closed \in [Workers -> BOOLEAN] :
          sd_clean' = [w \in Workers |->
             CASE sd_clean[w] = "flush" ->
                    IF sd_close[w] = "none" THEN "ended" ELSE "final_close"
               [] sd_clean[w] = "close" ->
                    IF closed[w] THEN "ended" ELSE "final_close"
               [] OTHER -> sd_clean[w]]
    /\ UNCHANGED <<sd_bound, sd_close, shutOther>>

\* The finally block's `await current_session.close()` returns.
ShutFinalClose(w) ==
    /\ sd_pc = "timed_out"
    /\ sd_clean[w] = "final_close"
    /\ sd_close[w] = "quick"
    /\ sd_clean' = [sd_clean EXCEPT ![w] = "ended"]
    /\ UNCHANGED <<sd_pc, sd_bound, sd_close, shutOther>>

\* gather() has every task's result within the 5 seconds.
ShutGatherDone ==
    /\ sd_pc = "gather"
    /\ AllEnded
    /\ sd_pc' = "rewrite"
    /\ UNCHANGED <<sd_clean, sd_bound, sd_close, shutOther>>

\* The cancelled gather is done, wait_for raises TimeoutError, which is
\* logged.
ShutTimeoutReturn ==
    /\ sd_pc = "timed_out"
    /\ AllEnded
    /\ sd_pc' = "rewrite"
    /\ UNCHANGED <<sd_clean, sd_bound, sd_close, shutOther>>

\* json.dump(json_data, file)
ShutRewrite ==
    /\ sd_pc = "rewrite"
    /\ sd_pc' = "rewritten"
    /\ UNCHANGED <<sd_clean, sd_bound, sd_close, shutOther>>

\* process_json_file at `for task in tasks`, with workers that are done
\* or still running.
ShutInit ==
    /\ BaseIdle
    /\ SessionStart
    /\ LoopIdle
    /\ SeedIdle
    /\ RunIdle
    /\ SkuIdle
    /\ sd_pc = "cancel"
    /\ sd_clean \in [Workers -> {"running", "ended"}]
    /\ sd_bound \in [Workers -> BOOLEAN]
    /\ sd_close \in [Workers -> CloseKinds]

ShutNext ==
    \/ ShutCancel
    \/ \E w \in Workers : ShutHandler(w)
    \/ \E w \in Workers : ShutClose(w)
    \/ ShutGraceOver
    \/ \E w \in Workers : ShutFinalClose(w)
    \/ ShutGatherDone
    \/ ShutTimeoutReturn
    \/ ShutRewrite

ShutSpec == ShutInit /\ [][ShutNext]_vars

\* The event loop runs every task that can run, close() calls that end
\* do end, and the timer of wait_for fires.
FairShutSpec ==
    /\ ShutSpec
    /\ WF_vars(ShutCancel)
    /\ WF_vars(\E w \in Workers : ShutHandler(w))
    /\ WF_vars(\E w \in Workers : ShutClose(w))
    /\ WF_vars(ShutGraceOver)
    /\ WF_vars(\E w \in Workers : ShutFinalClose(w))
    /\ WF_vars(ShutGatherDone)
    /\ WF_vars(ShutTimeoutReturn)
    /\ WF_vars(ShutRewrite)

\* ---------------------------------------------------------------- claims
HeldBy(u) == { w \in Workers : wpc[w] \in InFlight /\ UrlOf(wItem[w]) = u }

WaitingAt(u) == { k \in 1..Len(queue) : UrlOf(queue[k]) = u }

\* C1: at every moment a URL is waiting in the queue at most once or in
\* flight at exactly one worker, never both and never at two workers.
C1_AtMostOneHolder ==
    \A u \in Urls : Cardinality(WaitingAt(u)) + Cardinality(HeldBy(u)) <= 1

\* A URL is in flight after a second entry with the same URL was offered.
C1_Witness ==
    \E w \in Workers : \E j \in rejected :
        wpc[w] \in InFlight /\ UrlOf(j) = UrlOf(wItem[w])

\* C2: no mark_processed call waits forever: a call never ends up
\* suspended on the StateManager lock that it holds itself.
C2_MarkProcessedReturns == \A w \in Workers : ~SelfBlocked(w)

\* C3: in a --resume run no entry whose URL or SKU the state file lists
\* as completed is put on the queue or handed to process_product_url.
C3_ResumeSkipsCompleted ==
    resume =>
        \A i \in accepted \cup touched \cup Range(queue) :
            /\ UrlOf(i) \notin stateFile.processed_urls
            /\ SkuOf(listing[i]) \notin stateFile.processed_skus

\* Seeding of a --resume run is over, it passed over a completed entry
\* and queued another one.
C3_Witness ==
    /\ resume
    /\ mainPc = "join"
    /\ accepted # {}
    /\ \E i \in 1..Len(listing) :
          /\ i \notin accepted \cup rejected
          /\ \/ UrlOf(i) \in stateFile.processed_urls
             \/ SkuOf(listing[i]) \in stateFile.processed_skus

\* The image field an uninterrupted run can leave in entry i: the one
\* it found, the one processing i against the initial SKU files gives,
\* or the one reused from the SKU file that another entry of the same
\* SKU with another URL wrote earlier in the same run.
PagesOf(u) == IF page[u] = "unknown" THEN PageKinds ELSE {page[u]}

UninterruptedImages(i) ==
    LET u == UrlOf(i)
        sku == SkuOf(listing[i])
        existing == check_existing_sku_data(skuFile0, sku)
        own == IF existing # NoFile THEN {ReuseImage(existing)}
               ELSE { FetchImage(Orig, u, k) : k \in PagesOf(u) \ {"fail", "nodata"} }
        siblings == { j \in 1..Len(listing) :
                        UrlOf(j) # u /\ SkuOf(listing[j]) = sku }
        fromSibling == UNION { { ReuseImage(SkuData(UrlOf(j), k)) :
                                   k \in PagesOf(UrlOf(j)) \cap {"noimg", "one", "two"} } :
                               j \in siblings }
    IN  {Orig} \cup own \cup fromSibling

\* C4: a run killed and restarted with --resume ends with a listing file
\* in which every entry has an image field an uninterrupted run leaves.
C4_ResumeEquivalent ==
    (mainPc = "finished" /\ kills > 0 /\ stateFile = EmptyState) =>
        \A i \in 1..Len(listing) : fileImage[i] \in UninterruptedImages(i)

\* C5: a URL is in the completed-URL set only if the state file had it
\* or its processing succeeded in this run.
C5_CompletedOnlyAfterSuccess ==
    processed_urls \subseteq
        stateFile.processed_urls \cup { UrlOf(i) : i \in succeeded }

\* C6: task_done is called once per dequeued item: never twice, and once
\* when the worker is through with the item.
C6_TaskDoneExactlyOnce ==
    /\ \A u \in Urls : doneCalls[u] <= 1
    /\ \A i \in touched :
          HeldBy(UrlOf(i)) = {} => doneCalls[UrlOf(i)] = 1

\* C7: a put of a pending URL returns False and changes neither queue
\* nor pending set, and the queue never holds one URL twice.
C7_PutDedup ==
    /\ [](\A j, k \in 1..Len(queue) :
              j # k => UrlOf(queue[j]) # UrlOf(queue[k]))
    /\ [][ (mainPc = "seed" /\ seedIdx' = seedIdx + 1
              /\ UrlOf(seedIdx) \in pending)
           => (queue' = queue /\ pending' = pending
                 /\ accepted' = accepted) ]_vars

\* A put has returned False.
C7_Witness == rejected # {} /\ mainPc = "join"

\* C8: pending_count is the number of distinct URLs whose put was
\* accepted and for which task_done has not been called.
C8_PendingCount ==
    pending_count =
        Cardinality({ UrlOf(i) : i \in { j \in accepted : doneCalls[UrlOf(j)] = 0 } })

AllMatched == \A i \in accepted : doneCalls[UrlOf(i)] >= 1

\* C9: join() returns only when every accepted put is matched by a
\* task_done and nothing waits or is in flight, and it returns once
\* that is so.
C9_JoinReturns ==
    /\ [][ joinResult' = "drained" =>
             (AllMatched /\ queue = << >> /\ \A u \in Urls : HeldBy(u) = {}) ]_vars
    /\ [](joinResult = "drained" => AllMatched)
    /\ ((mainPc = "join" /\ AllMatched) ~> (joinResult = "drained"))

\* join() has returned after items went through the queue.
C9_Witness == joinResult = "drained" /\ accepted # {} /\ touched = accepted

\* C10: the pending set has as many members as the queue has unfinished
\* tasks.
C10_PendingMatchesUnfinished == Cardinality(pending) = unfinished

C12_FetchAfterAcquire ==
    \A c \in Workers : ppc[c] = "fetching" => slot[c] # "timeout"

Fetching == { c \in Workers : ppc[c] = "fetching" }

C14_RetriesBounded ==
    /\ [](gets <= retries)
    /\ [](fpc = "attempt" => lastStatus \notin {"200page", "200short", "200empty"})
    /\ [](result.kind = "fetched" =>
              lastStatus \in {"200page", "200short", "200empty"})
    /\ [](result.kind = "failure" =>
              /\ gets = retries
              /\ lastStatus \notin {"200page", "200short", "200empty"})
    /\ ((fpc = "attempt") ~> (fpc = "returned"))

\* A call returned failure after `retries` GETs, more than one.
C14_Witness ==
    /\ result.kind = "failure"
    /\ gets = retries
    /\ retries > 1

\* C15: a call that finds a cache file that is not expired and not empty
\* returns its content, issues no GET and never sleeps.
C15_CacheHitDirect ==
    (fpc = "returned" /\ callCache # NoCache
        /\ callCache.age < CACHE_EXPIRY /\ callCache.content # "empty") =>
        /\ result = [kind |-> "cached", body |-> callCache.content]
        /\ gets = 0
        /\ ~slept

\* A call returned the content of a cache file it had written earlier.
C15_Witness ==
    /\ result.kind = "cached"
    /\ callCache.age = 0
    /\ gets = 0

\* C16: a cache file is used when its age is below CACHE_EXPIRY and
\* treated as a miss from CACHE_EXPIRY on; an expired file is never
\* returned, and the check neither deletes nor changes it.
C16_CacheFreshness ==
    /\ [](fpc # "idle" =>
            /\ (callCache # NoCache /\ callCache.age >= CACHE_EXPIRY)
                  => result.kind # "cached"
            /\ (callCache # NoCache /\ callCache.age < CACHE_EXPIRY)
                  => (result.kind = "cached" \/ callCache.content = "empty"))
    /\ [][ (fpc = "idle" /\ fpc' # "idle") => cache' = cache ]_vars

\* A call found a stored page of exactly the age CACHE_EXPIRY and went
\* on to the server.
C16_Witness ==
    /\ callCache = [age |-> CACHE_EXPIRY, content |-> "page"]
    /\ gets > 0

\* The proxies that are configured and not available.
Retired == Range(proxies) \ Range(available_proxies)

\* C17: a proxy whose failure count has reached 3 since its last reset is
\* not available and is not the pinned proxy; a proxy with fewer than 3
\* failures since its last reset is available.
C17_RetireAtThreshold ==
    \A p \in Range(proxies) :
        /\ failed_proxies[p] >= PROXY_ROTATION_THRESHOLD =>
              p \notin Range(available_proxies) /\ current_proxy # p
        /\ failed_proxies[p] < PROXY_ROTATION_THRESHOLD =>
              p \in Range(available_proxies)

\* The proxy that get_proxy returned last failed for the third time and
\* is retired, while another proxy with two failures is still available.
C17_Witness ==
    /\ returned # "none"
    /\ failed_proxies[returned] = PROXY_ROTATION_THRESHOLD
    /\ returned \in Retired
    /\ current_proxy = "none"
    /\ \E q \in Range(available_proxies) :
          failed_proxies[q] = PROXY_ROTATION_THRESHOLD - 1

\* C18: a get_proxy call that finds 3 or fewer proxies available and at
\* least one retired reinstates a retired proxy.
C18_RecoveryWhenLow ==
    [][(/\ getFlip' # getFlip
        /\ Len(available_proxies) <= PROXY_RECOVERY_TARGET
        /\ Retired # {})
       => \E p \in Retired : p \in Range(available_proxies')]_vars

\* C19: a recovery pass appends retired proxies in ascending order of
\* their failure counts, the ones it leaves retired having counts at least
\* as high, stops when 3 are available, resets the count of every proxy it
\* reinstated and leaves the other counts alone; a get_proxy call that
\* finds more than 3 proxies available reinstates nothing.
C19_RecoveryPass ==
    [][(getFlip' # getFlip) =>
          LET av == available_proxies'
              back == Range(av) \ Range(available_proxies)
          IN  /\ available_proxies = << >> =>
                 /\ Len(av) <= PROXY_RECOVERY_TARGET
                 /\ Len(av) < PROXY_RECOVERY_TARGET => Range(av) = Range(proxies)
                 /\ \A j, k \in 1..Len(av) :
                       j < k => failed_proxies[av[j]] <= failed_proxies[av[k]]
                 /\ \A p \in back, q \in Range(proxies) \ back :
                       failed_proxies[p] <= failed_proxies[q]
                 /\ \A p \in back : failed_proxies'[p] = 0
                 /\ \A q \in Range(proxies) \ back :
                       failed_proxies'[q] = failed_proxies[q]
              /\ Len(available_proxies) > PROXY_RECOVERY_TARGET =>
                 /\ av = available_proxies
                 /\ failed_proxies' = failed_proxies]_vars

\* A recovery pass has put back three of four retired proxies, the one
\* with the fewest failures first; the one left retired keeps its higher
\* count.
C19_Witness ==
    /\ Len(available_proxies) = PROXY_RECOVERY_TARGET
    /\ available_proxies[1] = proxies[Len(proxies)]
    /\ \A p \in Range(available_proxies) : failed_proxies[p] = 0
    /\ \E q \in Retired : failed_proxies[q] > PROXY_ROTATION_THRESHOLD
    /\ returned \in Range(available_proxies)
    /\ proxy_last_used[returned] = 0

\* The priority of get_proxy's choice on a call that leaves a proxy
\* available, for the set ok of the proxies last used long enough ago: the
\* pinned proxy if it is available and passes; otherwise a proxy that
\* passes, which becomes the pinned one; otherwise the available proxy
\* whose last use is the oldest, which becomes the pinned one; the age of
\* the chosen proxy's last use becomes 0.
SelectsByPriority(ok) ==
    (getFlip' # getFlip /\ available_proxies' # << >>) =>
        LET av == Range(available_proxies')
        IN  /\ returned' \in av
            /\ proxy_last_used'[returned'] = 0
            /\ IF current_proxy \in av /\ current_proxy \in ok
               THEN returned' = current_proxy /\ current_proxy' = current_proxy
               ELSE IF av \cap ok # {}
               THEN returned' \in ok /\ current_proxy' = returned'
               ELSE /\ \A p \in av :
                          proxy_last_used[p] <= proxy_last_used[returned']
                    /\ current_proxy' = returned'

\* C20 as stated: the pinned proxy is kept, and another proxy is
\* rotated to, when its last use was at least 60 s ago.
C20_PriorityAtLeast60 ==
    [][SelectsByPriority({p \in Range(proxies) : reusable_at_gap(p)})]_vars

\* C20, amended: the pinned proxy is kept, and another proxy is rotated
\* to, only when its last use was more than 60 s ago; a proxy last used
\* exactly 60 s ago counts as recently used.
C20_PriorityMoreThan60 ==
    [][/\ SelectsByPriority({p \in Range(proxies) :
                               proxy_last_used[p] > GapSteps})
       /\ (getFlip' # getFlip /\ available_proxies' = << >>) =>
              returned' = "none"]_vars

\* The pinned proxy was last used exactly 60 s ago, and get_proxy has
\* rotated to another proxy that was last used longer ago.
C20_Witness ==
    /\ returned # "none"
    /\ current_proxy = returned
    /\ proxy_last_used[returned] = 0
    /\ \E p \in Range(available_proxies) \ {returned} :
          proxy_last_used[p] = GapSteps

\* C21: the health score of a worker's session is within 0..100 at every
\* point, the value between an error's deduction and the low-health reset
\* included.
C21_HealthInRange ==
    /\ session_health \in 0..100
    /\ health_floor \in 0..100

\* A connection error took the score from 40 to 10, and the renewal it
\* forced put it to 70.
C21_Witness ==
    /\ health_floor = 10
    /\ session_health = 70
    /\ current_session = "open"

C23_ExitAfterFiveTimeouts ==
    /\ [](exit_path = "empty" <=> streak >= max_empty_count)
    /\ [](streak <= max_empty_count /\ loop_empty_count = streak)
    /\ [](lpc = "got" => loop_empty_count = 0)
    /\ (lpc \in {"top", "get"} /\ loop_queue = 0) ~> (lpc = "exited")

\* The worker processed an item without success, then met the empty
\* queue five times and left.
C23_Witness ==
    /\ exit_path = "empty"
    /\ streak = max_empty_count
    /\ operations_total > 0

\* C24: process_json_file, for a listing file with any number of distinct
\* new product URLs, gets through seeding, spawns the workers, stops
\* waiting for the queue and reaches the rewrite of the listing file.
C24_ReachesRewrite == <>(seed_pc = "rewritten")

\* C25: an error while a listing file is processed does not end the run:
\* the loop goes on to the delay and the next file, and a run that is over
\* has attempted every file up to its last one, or up to the one before
\* which the --max-requests limit was found reached.
C25_FileErrorConfined ==
    /\ stopped_by # "error"
    /\ run_pc = "done" /\ stopped_by = "end" =>
          attempted = 1..Len(json_files)
    /\ run_pc = "done" /\ stopped_by = "limit" =>
          attempted = 1..(file_idx - 1)
    /\ \A i \in attempted : ~json_files[i].ok /\ i < file_idx =>
          (i + 1 \in attempted \/ i = Len(json_files)
              \/ (i + 1 = file_idx /\ run_pc = "loop") \/ stopped_by = "limit")

\* A run with a first file that cannot be parsed has gone on to process
\* a URL of its second file.
C25_Witness ==
    /\ ~json_files[1].ok
    /\ 2 \in attempted
    /\ file_ops > 0

\* C26: with --max-requests M the URLs of this run that went to
\* fetch_url are at most M.
C26_FetchesWithinLimit ==
    max_requests # NoLimit => new_fetches <= max_requests

\* C27: after a listing file the short delay is chosen exactly when the
\* file had operations and all of them were served from stored data.
C27_ShortDelayIffAllCached ==
    [][run_pc = "delay" /\ run_pc' = "loop" =>
          (delay' = "short" <=> (file_ops > 0 /\ file_hits = file_ops))]_vars

\* C28: when the run is through a listing file with one product whose
\* page was fetched and held two image URLs, the product's image field in
\* the file is the list of the two, the SKU file holds the fetched
\* records, and the state file on disk lists the URL and the SKU.
C28_OneProductEndState ==
    (/\ mainPc = "finished"
     /\ Len(listing) = 1
     /\ page[UrlOf(1)] = "two")
    => /\ fileImage[1] = Img(UrlOf(1), 2)
       /\ skuFile[SkuOf(listing[1])] = SkuData(UrlOf(1), "two")
       /\ UrlOf(1) \in stateFile.processed_urls
       /\ SkuOf(listing[1]) \in stateFile.processed_skus

\* C29: a URL is at most once in a file's progress list, and a
\* mark_processed call takes no URL or SKU out of the completed sets and
\* either leaves the file's list as it is or appends one URL that was
\* not in it.
C29_MarkProcessedIdempotent ==
    /\ [](\A f \in Files : \A j, k \in 1..Len(file_progress[f]) :
             file_progress[f][j] = file_progress[f][k] => j = k)
    /\ [][total_processed' > total_processed =>
             /\ processed_urls \subseteq processed_urls'
             /\ processed_skus \subseteq processed_skus'
             /\ \A f \in Files :
                   \/ file_progress'[f] = file_progress[f]
                   \/ \E u \in processed_urls' \ Range(file_progress[f]) :
                         file_progress'[f] = Append(file_progress[f], u)]_vars

\* mark_processed has been called twice for one URL of the file (by the
\* worker and again by its cancellation handler), and the URL is once in
\* the list.
C29_Witness ==
    /\ total_processed >= 2
    /\ Len(file_progress[FileName]) = 1
    /\ Cardinality(processed_urls) = 1

\* The SKU the stated priority gives: the first identifier field the
\* record has (the URL's SKU where that field is empty); else the digits
\* of the /d/<name>-<digits>/ path; else the sku or id query parameter or
\* the all-digit last path segment; else the hash of the URL.
FirstField(p) ==
    IF p.sku # Absent THEN p.sku
    ELSE IF p.productID # Absent THEN p.productID
    ELSE IF p.identifier # Absent THEN p.identifier
    ELSE p.id

StatedSku(p, u) ==
    IF FirstField(p) \notin {Absent, ""} THEN FirstField(p)
    ELSE IF u.d # "" THEN u.d
    ELSE IF u.parses /\ u.qsku # "" THEN u.qsku
    ELSE IF u.parses /\ u.qid # "" THEN u.qid
    ELSE IF u.parses /\ u.tail # "" THEN u.tail
    ELSE u.md5

\* C30: wherever a product's SKU has been resolved (seeding, processing,
\* processing again, marking) it is the SKU of the stated priority, the
\* same in every place.
C30_SkuDeterministic ==
    \A x \in SkuPlaces :
        sku_seen[x] # Unset => sku_seen[x] = StatedSku(sku_product, sku_url)

\* C31: for a URL whose processing succeeded the worker's mark_processed
\* step comes before its task_done step: a successfully processed URL
\* for which task_done was called is in the completed-URL set, and so is
\* every successfully processed URL when join() returns on the drained
\* queue.
C31_MarkBeforeTaskDone ==
    /\ \A i \in succeeded :
          doneCalls[UrlOf(i)] > 0 => UrlOf(i) \in processed_urls
    /\ joinResult = "drained" =>
          \A i \in succeeded : UrlOf(i) \in processed_urls

\* C32: a processing step that fails, because the fetch failed or the
\* page held no structured data, leaves the image fields as they were and
\* adds nothing to the completed URLs and SKUs.
C32_FailureLeavesNoTrace ==
    [][\A w \in Workers :
          (/\ mainPc = "join"
           /\ wpc[w] = "processing"
           /\ wpc'[w] # "processing"
           /\ check_existing_sku_data(skuFile, SkuOf(listing[wItem[w]])) = NoFile
           /\ page'[UrlOf(wItem[w])] \in {"fail", "nodata"})
          => /\ jsonImage' = jsonImage
             /\ processed_urls' = processed_urls
             /\ processed_skus' = processed_skus
             /\ file_progress' = file_progress]_vars

\* A worker is back at the queue after a page without structured data:
\* the entry's image field is the original one and its URL is not among
\* the completed ones.
C32_Witness ==
    \E w \in Workers :
        /\ mainPc = "join"
        /\ wpc[w] = "idle"
        /\ wItem[w] # 0
        /\ page[UrlOf(wItem[w])] = "nodata"
        /\ jsonImage[wItem[w]] = Orig
        /\ UrlOf(wItem[w]) \notin processed_urls
        /\ doneCalls[UrlOf(wItem[w])] = 1

\* C33: in the rewritten listing file every entry whose URL was
\* processed successfully in this pass, with images found on its page,
\* carries those images, entries that share the URL included.
C33_RewriteCarriesImages ==
    (mainPc = "finished" /\ joinResult # "none") =>
        \A i \in 1..Len(listing) : \A j \in succeeded :
            (UrlOf(i) = UrlOf(j) /\ page[UrlOf(j)] \in {"one", "two"}) =>
                fileImage[i] = Img(UrlOf(j), NumImages(page[UrlOf(j)]))

\* C34: a processing step leaves in the entry's image field the single
\* URL when one image URL was found, the list when several were found,
\* and what was there when none was found, with data fetched from the
\* page as with data reused from the SKU file.
C34_ImageFieldShape ==
    [][\A w \in Workers :
          (/\ mainPc = "join"
           /\ wpc[w] = "processing"
           /\ wpc'[w] # "processing")
          => LET i == wItem[w]
                 existing == check_existing_sku_data(skuFile, SkuOf(listing[i]))
                 src == IF existing # NoFile THEN existing.src ELSE UrlOf(i)
                 found == IF existing # NoFile THEN NumImages(existing.kind)
                          ELSE NumImages(page'[UrlOf(i)])
             IN  jsonImage'[i] = IF found = 0 THEN jsonImage[i]
                                 ELSE Img(src, found)]_vars

\* C35: a create_safe_session call whose health update ends below 40
\* leaves the score at 70 and does not hand back the session it found:
\* the session the worker has afterwards, if any, was built by that call.
\* The score between two calls is never below 40.
C35_LowHealthForcesRenewal ==
    /\ health_floor < 40 =>
          /\ session_health = 70
          /\ current_session = "open" => session_fresh
    /\ session_health >= 40

\* After two connection errors a third error took the score from 40 to
\* 30; the call built a new session and left the score at 70.
C35_Witness ==
    /\ health_floor = 30
    /\ session_health = 70
    /\ consecutive_errors = 3
    /\ current_session = "open"
    /\ session_fresh

\* C39: the pinned proxy is none or one of the available proxies, and a
\* get_proxy call returns one of the proxies available when it returns,
\* or none when a recovery attempt on the empty available list left it
\* empty.
C39_PinnedAndReturnedAvailable ==
    /\ [](current_proxy = "none" \/ current_proxy \in Range(available_proxies))
    /\ [][(getFlip' # getFlip) =>
             \/ returned' \in Range(available_proxies')
             \/ /\ returned' = "none"
                /\ available_proxies = << >>
                /\ available_proxies' = << >>]_vars

\* get_proxy returned, and pinned, a proxy that had been retired and was
\* put back by the recovery pass of that call, while another proxy stays
\* retired.
C39_Witness ==
    /\ returned # "none"
    /\ returned = current_proxy
    /\ returned = available_proxies[1]
    /\ failed_proxies[returned] = 0
    /\ proxy_last_used[returned] = 0
    /\ Len(available_proxies) = PROXY_RECOVERY_TARGET
    /\ Retired # {}

\* C40: no GET of fetch_url goes through a proxy that the ProxyManager
\* has retired at that moment.
C40_NoFetchViaRetired == ~fetch_via.retired

\* C37: a worker cancelled while it waits for an item, with no item in
\* flight, calls neither task_done nor mark_processed and ends.
C37_IdleCancelTouchesNothing ==
    [][\A w \in Workers :
          (mainPc = "gather" /\ wpc[w] = "idle" /\ wpc'[w] # "idle")
          => /\ doneCalls' = doneCalls
             /\ unfinished' = unfinished
             /\ pending' = pending
             /\ processed_urls' = processed_urls
             /\ processed_skus' = processed_skus
             /\ total_processed' = total_processed
             /\ wpc'[w] = "done"]_vars

\* C38: a SKU file that exists is never written again: a processing step
\* of its SKU reuses it or makes no fetch.
C38_SkuFileWrittenOnce ==
    [][\A s \in Skus : skuFile[s] # NoFile => skuFile'[s] = skuFile[s]]_vars

\* C36: once the orchestrator has cancelled its workers it gets to the
\* rewrite of the listing file, whatever the workers' cleanup does.
C36_RewriteAfterCancel == <>(sd_pc = "rewritten")

====
